---- MODULE Spec2Model ----
(***************************************************************************)
(* Gamification and earnings engine of the activity tracker backend.       *)
(*                                                                         *)
(* The document store is a set of per-collection maps; every handler of    *)
(* services/gamification_service.py and services/earnings_service.py is    *)
(* one action.  Money is counted in cents, time in ticks of a fixed        *)
(* fraction of a day.                                                      *)
(***************************************************************************)
EXTENDS Integers, Sequences, FiniteSets, TLC

VARIABLES
    now,        \* the wall clock read by datetime.utcnow(), in ticks
    stats,      \* collection user_stats: user id -> document or NoDoc
    badges,     \* collection user_badges: user id -> unlock map or NoDoc
    activities, \* collection activities: activity id -> document or NoDoc
    logs,       \* collection logs: log id -> document or NoDoc
    awarded,    \* history: user id -> sum of the amounts passed to award_xp
    lastCall,   \* history: the handler that ran last since the clock moved, its inputs and result
    users,      \* collection users: user id -> profile document or NoDoc
    reqs,       \* the requests in flight: request id -> its position and locals
    ledger,     \* history: what the log endpoints were asked to do so far
    families    \* collection families: family id -> document or NoDoc

vars ==
    <<now, stats, badges, activities, logs, awarded, lastCall, users, reqs, ledger,
      families>>

(***************************************************************************)
(* Bounds of the model.                                                    *)
(***************************************************************************)
TicksPerDay == 2        \* clock resolution: ticks in one elapsed day
MaxTime == 16           \* the clock stops advancing here
MaxTotalXP == 500       \* award_xp is not called beyond this lifetime XP
MaxActivities == 2      \* increment_activity_count is not called beyond this
MaxEarnings == 100      \* add_to_total_earnings is not called beyond this (cents)
MaxStamp == 2           \* log timestamps and window edges of the earnings query

(***************************************************************************)
(* Identifiers.                                                            *)
(***************************************************************************)
Users == {"child1", "child2"}
Families == {"fam1", "fam2"}
ActivityIds == {"act1", "act2", "act3"}
LogIds == {"log1", "log2"}
Parents == {"parent1", "parent2"}
Accounts == Users \cup Parents
RequestIds == {"req1", "req2"}
NoDoc == [exists |-> FALSE]     \* what get() gives when doc.exists is False
None == "None"                  \* Python None
NoDate == <<>>                  \* a date field that is None or missing
Date(t) == <<t>>                \* a date field holding the instant t
instant(date) == date[1]

\* the profile document of a user who chose a role and joined a family
Profile(role, family_id) == [role |-> role, familyId |-> family_id]

\* the registered accounts: one child and one parent in each family
Profiles ==
    [child1 |-> Profile("child", "fam1"), child2 |-> Profile("child", "fam2"),
     parent1 |-> Profile("parent", "fam1"), parent2 |-> Profile("parent", "fam2")]

\* the profile document auth sets for a new account: no family yet
NewProfiles ==
    [child1 |-> Profile("child", None), child2 |-> Profile("child", None),
     parent1 |-> Profile("parent", None), parent2 |-> Profile("parent", None)]

\* a document of the families collection; members is a list
Family(id, invite_code, owner_id, members, created_at) ==
    [id |-> id, inviteCode |-> invite_code, ownerId |-> owner_id, members |-> members,
     createdAt |-> created_at]

\* the invite codes generate_invite_code is taken to draw from
InviteCodes == {"ABC123", "XYZ789"}

\* the families of Profiles: created by the parent, joined by the child
JoinedFamilies ==
    [fam1 |-> Family("fam1", "ABC123", "parent1", <<"parent1", "child1">>, Date(0)),
     fam2 |-> Family("fam2", "XYZ789", "parent2", <<"parent2", "child2">>, Date(0))]

(***************************************************************************)
(* calculate_xp_to_next_level: int(100 * level ** 1.5).  level ** 1.5 is   *)
(* sqrt(level^3), so the truncated value is the integer square root of     *)
(* 10000 * level^3.                                                        *)
(***************************************************************************)
RECURSIVE IntSqrtBetween(_, _, _)
IntSqrtBetween(n, lo, hi) ==
    \* the largest r in lo..hi with r*r <= n, given lo*lo <= n < (hi+1)*(hi+1)
    IF lo = hi THEN lo
    ELSE LET mid == (lo + hi + 1) \div 2
         IN  IF mid * mid <= n THEN IntSqrtBetween(n, mid, hi)
                               ELSE IntSqrtBetween(n, lo, mid - 1)

calculate_xp_to_next_level(current_level) ==
    \* level ** 1.5 lies between 0 and level ** 2
    IntSqrtBetween(10000 * current_level * current_level * current_level,
                   0, 100 * current_level * current_level)

(***************************************************************************)
(* award_xp                                                                *)
(***************************************************************************)
NoKey == "no key"       \* a key the result dict does not carry

\* the document award_xp sets for a user without one
award_xp_new_stats(user_id) ==
    [userId |-> user_id, level |-> 1, experiencePoints |-> 0,
     totalExperience |-> 0, currentStreak |-> 0, longestStreak |-> 0,
     lastActivityDate |-> NoDate, totalActivitiesLogged |-> 0,
     totalEarnings |-> 0, badgesEarned |-> 0]

\* Variants of the level-up loop that a slip in the code would give: the
\* loop test written with >, and a single if in place of the while.
RECURSIVE level_up_loop_strict(_, _)
level_up_loop_strict(new_xp, new_level) ==
    IF new_xp > calculate_xp_to_next_level(new_level)
    THEN level_up_loop_strict(new_xp - calculate_xp_to_next_level(new_level), new_level + 1)
    ELSE [new_xp |-> new_xp, new_level |-> new_level]

level_up_once(new_xp, new_level) ==
    IF new_xp >= calculate_xp_to_next_level(new_level)
    THEN [new_xp |-> new_xp - calculate_xp_to_next_level(new_level),
          new_level |-> new_level + 1]
    ELSE [new_xp |-> new_xp, new_level |-> new_level]

\* Variant: a level-up that starts the new level with an empty balance.
level_up_empty_balance(new_xp, new_level) ==
    IF new_xp >= calculate_xp_to_next_level(new_level)
    THEN [new_xp |-> 0, new_level |-> new_level + 1]
    ELSE [new_xp |-> new_xp, new_level |-> new_level]

\* the level-up loop: while new_xp >= xp_to_next
RECURSIVE level_up_loop(_, _)
level_up_loop(new_xp, new_level) ==
    IF new_xp >= calculate_xp_to_next_level(new_level)
    THEN level_up_loop(new_xp - calculate_xp_to_next_level(new_level), new_level + 1)
    ELSE [new_xp |-> new_xp, new_level |-> new_level]

\* Variant: the total overwritten by the award instead of increased by it.
lifetime_xp_overwritten(total_xp, xp_amount) == xp_amount

\* new_total_xp = total_xp + xp_amount
lifetime_xp(total_xp, xp_amount) == total_xp + xp_amount

\* award_xp on the user_stats collection st: the collection afterwards and
\* the returned dict
award_xp(st, user_id, xp_amount) ==
    LET s == IF st[user_id] = NoDoc THEN award_xp_new_stats(user_id) ELSE st[user_id]
        current_level == s.level
        new_total_xp == lifetime_xp(s.totalExperience, xp_amount)
        up == level_up_loop(s.experiencePoints + xp_amount, current_level)
        level_up == up.new_level # current_level
    IN  [stats |-> [st EXCEPT ![user_id] =
                       [s EXCEPT !.experiencePoints = up.new_xp,
                                 !.totalExperience = new_total_xp,
                                 !.level = up.new_level]],
         result |-> [xp_awarded |-> xp_amount,
                     new_xp |-> up.new_xp,
                     new_total_xp |-> new_total_xp,
                     level |-> up.new_level,
                     level_up |-> level_up,
                     xp_to_next_level |-> calculate_xp_to_next_level(up.new_level),
                     old_level |-> IF level_up THEN current_level ELSE NoKey,
                     new_level |-> IF level_up THEN up.new_level ELSE NoKey]]

(***************************************************************************)
(* award_xp as its two store accesses: the read of the stats document and  *)
(* the writes computed from what was read.                                 *)
(***************************************************************************)
\* Variant: the new values computed from the document as it is stored at
\* the time of the write, as a transaction would.
award_xp_write_from_store(st, user_id, xp_amount, stats_doc) ==
    award_xp(st, user_id, xp_amount).stats

\* the writes of award_xp after stats_doc was read: set() of the new
\* document when none was found, then update() of experiencePoints,
\* totalExperience and level with the values computed from stats_doc
award_xp_write(st, user_id, xp_amount, stats_doc) ==
    LET computed == award_xp([st EXCEPT ![user_id] = stats_doc], user_id,
                             xp_amount).stats[user_id]
        stored == IF stats_doc = NoDoc \/ st[user_id] = NoDoc
                  THEN award_xp_new_stats(user_id)
                  ELSE st[user_id]
    IN  [st EXCEPT ![user_id] =
            [stored EXCEPT !.experiencePoints = computed.experiencePoints,
                           !.totalExperience = computed.totalExperience,
                           !.level = computed.level]]

(***************************************************************************)
(* update_streak                                                           *)
(***************************************************************************)
\* Local time minus UTC on the serving host, in ticks.  utcnow() is UTC and
\* fromtimestamp() is local time; the service is taken to run with its clock
\* in UTC.
HostUtcOffset == 0

\* Variant: the stored instant read back on a host whose local time runs one
\* tick ahead of UTC.
from_timestamp_host_ahead(last_activity) == instant(last_activity) + 1

\* datetime.fromtimestamp(last_activity.timestamp()): the stored UTC instant
\* read back as a naive datetime in the host's local time
from_timestamp(last_activity) == instant(last_activity) + HostUtcOffset

\* timedelta.days: whole days, rounded towards minus infinity
timedelta_days(time_diff) ==
    IF time_diff >= 0 THEN time_diff \div TicksPerDay
    ELSE -((-time_diff + TicksPerDay - 1) \div TicksPerDay)

\* Variant: the new document with the first day in currentStreak only.
update_streak_new_stats_current_only(user_id, utcnow) ==
    [userId |-> user_id, level |-> 1, experiencePoints |-> 0,
     totalExperience |-> 0, currentStreak |-> 1, longestStreak |-> 0,
     lastActivityDate |-> Date(utcnow), totalActivitiesLogged |-> 1,
     totalEarnings |-> 0, badgesEarned |-> 0]

\* the document update_streak sets for a user without one
update_streak_new_stats(user_id, utcnow) ==
    [userId |-> user_id, level |-> 1, experiencePoints |-> 0,
     totalExperience |-> 0, currentStreak |-> 1, longestStreak |-> 1,
     lastActivityDate |-> Date(utcnow), totalActivitiesLogged |-> 1,
     totalEarnings |-> 0, badgesEarned |-> 0]

\* Variant: the next-day test written days <= 2, so a gap of two days still
\* continues the streak.
streak_step_lenient(last_activity, current_streak, utcnow) ==
    IF last_activity # NoDate
    THEN LET days == timedelta_days(utcnow - from_timestamp(last_activity))
         IN  IF days = 0
             THEN [write |-> FALSE, current_streak |-> current_streak,
                   streak_continued |-> FALSE]
             ELSE IF days <= 2
             THEN [write |-> TRUE, current_streak |-> current_streak + 1,
                   streak_continued |-> TRUE]
             ELSE [write |-> TRUE, current_streak |-> 1, streak_continued |-> FALSE]
    ELSE [write |-> TRUE, current_streak |-> 1, streak_continued |-> FALSE]

\* Variant: the next day counted as a day of the streak without being
\* reported as its continuation.
streak_step_unreported(last_activity, current_streak, utcnow) ==
    IF last_activity # NoDate
    THEN LET days == timedelta_days(utcnow - from_timestamp(last_activity))
         IN  IF days = 0
             THEN [write |-> FALSE, current_streak |-> current_streak,
                   streak_continued |-> FALSE]
             ELSE IF days = 1
             THEN [write |-> TRUE, current_streak |-> current_streak + 1,
                   streak_continued |-> FALSE]
             ELSE [write |-> TRUE, current_streak |-> 1, streak_continued |-> FALSE]
    ELSE [write |-> TRUE, current_streak |-> 1, streak_continued |-> FALSE]

\* the streak after the day test: same day (no write), next day, or reset
streak_step(last_activity, current_streak, utcnow) ==
    IF last_activity # NoDate
    THEN LET days == timedelta_days(utcnow - from_timestamp(last_activity))
         IN  IF days = 0
             THEN [write |-> FALSE, current_streak |-> current_streak,
                   streak_continued |-> FALSE]
             ELSE IF days = 1
             THEN [write |-> TRUE, current_streak |-> current_streak + 1,
                   streak_continued |-> TRUE]
             ELSE [write |-> TRUE, current_streak |-> 1, streak_continued |-> FALSE]
    ELSE [write |-> TRUE, current_streak |-> 1, streak_continued |-> FALSE]

\* Variant: a flat bonus of 70 at every multiple of 7.
streak_bonus_flat(current_streak) ==
    IF current_streak % 7 = 0 THEN 70 ELSE 0

\* bonus XP: every 7 days of streak
streak_bonus(current_streak) ==
    IF current_streak % 7 = 0 THEN current_streak * 10 ELSE 0

\* update_streak on the user_stats collection st at time utcnow: the
\* collection afterwards, the returned dict and the award_xp calls it made
update_streak(st, user_id, utcnow) ==
    IF st[user_id] = NoDoc
    THEN [stats |-> [st EXCEPT ![user_id] = update_streak_new_stats(user_id, utcnow)],
          result |-> [current_streak |-> 1, longest_streak |-> 1,
                      streak_bonus_xp |-> 0, streak_continued |-> FALSE],
          awards |-> <<>>]
    ELSE
    LET s == st[user_id]
        step == streak_step(s.lastActivityDate, s.currentStreak, utcnow)
        longest_streak == IF step.current_streak > s.longestStreak
                          THEN step.current_streak ELSE s.longestStreak
        streak_bonus_xp == streak_bonus(step.current_streak)
        updated == [st EXCEPT ![user_id] =
                       [s EXCEPT !.currentStreak = step.current_streak,
                                 !.longestStreak = longest_streak,
                                 !.lastActivityDate = Date(utcnow)]]
    IN  IF ~step.write
        THEN [stats |-> st,
              result |-> [current_streak |-> s.currentStreak,
                          longest_streak |-> s.longestStreak,
                          streak_bonus_xp |-> 0, streak_continued |-> FALSE],
              awards |-> <<>>]
        ELSE [stats |-> IF streak_bonus_xp > 0
                        THEN award_xp(updated, user_id, streak_bonus_xp).stats
                        ELSE updated,
              result |-> [current_streak |-> step.current_streak,
                          longest_streak |-> longest_streak,
                          streak_bonus_xp |-> streak_bonus_xp,
                          streak_continued |-> step.streak_continued],
              awards |-> IF streak_bonus_xp > 0 THEN <<streak_bonus_xp>> ELSE <<>>]

(***************************************************************************)
(* The badge catalog: requirement type and value of every badge.  Earnings *)
(* requirements are in dollars, as in the source.                          *)
(***************************************************************************)
Badge(requirement_type, requirement_value) ==
    [requirement_type |-> requirement_type, requirement_value |-> requirement_value]

BADGES ==
    [first_steps |-> Badge("activity_count", 1),
     getting_started |-> Badge("activity_count", 10),
     dedicated |-> Badge("activity_count", 50),
     super_achiever |-> Badge("activity_count", 100),
     legendary_worker |-> Badge("activity_count", 500),
     first_dollar |-> Badge("total_earnings", 1),
     money_maker |-> Badge("total_earnings", 50),
     big_earner |-> Badge("total_earnings", 100),
     wealth_builder |-> Badge("total_earnings", 500),
     on_fire |-> Badge("current_streak", 7),
     unstoppable |-> Badge("current_streak", 30),
     streak_master |-> Badge("current_streak", 100),
     bookworm |-> Badge("pages_read", 100),
     avid_reader |-> Badge("pages_read", 500),
     library_master |-> Badge("pages_read", 1000),
     early_bird |-> Badge("special", 1),
     night_owl |-> Badge("special", 1),
     weekend_warrior |-> Badge("special", 1),
     perfect_week |-> Badge("special", 1),
     goal_crusher |-> Badge("goals_completed", 1)]

get_all_badges == BADGES

CentsPerDollar == 100   \* totalEarnings is kept in cents here

(***************************************************************************)
(* check_and_award_badges                                                  *)
(***************************************************************************)
EmptyMap == [b \in {} |-> None]

\* Variant: a last branch that tests any other requirement type against the
\* activity counter.
badge_earned_else_by_count(s, badge_def) ==
    LET req_type == badge_def.requirement_type
        req_value == badge_def.requirement_value
    IN  IF req_type = "activity_count" THEN s.totalActivitiesLogged >= req_value
        ELSE IF req_type = "total_earnings"
             THEN s.totalEarnings >= req_value * CentsPerDollar
        ELSE IF req_type = "current_streak" THEN s.currentStreak >= req_value
        ELSE s.totalActivitiesLogged >= req_value

\* Variant: the requirement met only once the stat is above the value.
badge_earned_above(s, badge_def) ==
    LET req_type == badge_def.requirement_type
        req_value == badge_def.requirement_value
    IN  IF req_type = "activity_count" THEN s.totalActivitiesLogged > req_value
        ELSE IF req_type = "total_earnings"
             THEN s.totalEarnings > req_value * CentsPerDollar
        ELSE IF req_type = "current_streak" THEN s.currentStreak > req_value
        ELSE FALSE

\* the requirement test of one badge against the stats document
badge_earned(s, badge_def) ==
    LET req_type == badge_def.requirement_type
        req_value == badge_def.requirement_value
    IN  IF req_type = "activity_count" THEN s.totalActivitiesLogged >= req_value
        ELSE IF req_type = "total_earnings"
             THEN s.totalEarnings >= req_value * CentsPerDollar
        ELSE IF req_type = "current_streak" THEN s.currentStreak >= req_value
        ELSE FALSE

\* Variant: the loop without its "skip if already earned" test.
newly_earned_badges_no_skip(s, earned_badges) ==
    {badge_id \in DOMAIN get_all_badges : badge_earned(s, get_all_badges[badge_id])}

\* the badges of the catalog that are not in the unlock map and whose
\* requirement the stats document meets
newly_earned_badges(s, earned_badges) ==
    {badge_id \in DOMAIN get_all_badges :
        /\ badge_id \notin DOMAIN earned_badges
        /\ badge_earned(s, get_all_badges[badge_id])}

\* the unlock map with the newly earned badges stamped in
with_new_badges(earned_badges, newly_earned, utcnow) ==
    [badge_id \in DOMAIN earned_badges \cup newly_earned |->
        IF badge_id \in DOMAIN earned_badges THEN earned_badges[badge_id]
        ELSE [earnedAt |-> utcnow, progress |-> 100]]

\* Variant: badgesEarned set to the number of badges earned in this call.
badges_earned_count_of_call(earned_badges, newly_earned) == Cardinality(newly_earned)

\* len(earned_badges) once the newly earned badges are in the map
badges_earned_count(earned_badges, newly_earned) ==
    Cardinality(DOMAIN earned_badges \cup newly_earned)

\* Variant: the unlock document looked up, and set when missing, ahead of
\* the test for the stats document.
check_and_award_badges_unlock_doc_first(st, bd, user_id, utcnow) ==
    LET earned_badges == IF bd[user_id] # NoDoc THEN bd[user_id].badges ELSE EmptyMap
        created == IF bd[user_id] # NoDoc THEN bd
                   ELSE [bd EXCEPT ![user_id] = [userId |-> user_id, badges |-> EmptyMap]]
    IN  IF st[user_id] = NoDoc
        THEN [stats |-> st, badges |-> created, result |-> {}]
        ELSE
        LET newly_earned == newly_earned_badges(st[user_id], earned_badges)
            all_earned == with_new_badges(earned_badges, newly_earned, utcnow)
        IN  IF newly_earned # {}
            THEN [stats |-> [st EXCEPT ![user_id].badgesEarned =
                                    badges_earned_count(earned_badges, newly_earned)],
                  badges |-> [bd EXCEPT ![user_id] =
                                 [userId |-> user_id, badges |-> all_earned]],
                  result |-> newly_earned]
            ELSE [stats |-> st, badges |-> created, result |-> {}]

\* check_and_award_badges on the two collections: both afterwards, and the
\* ids of the returned badge definitions
check_and_award_badges(st, bd, user_id, utcnow) ==
    IF st[user_id] = NoDoc
    THEN [stats |-> st, badges |-> bd, result |-> {}]
    ELSE
    LET earned_badges == IF bd[user_id] # NoDoc THEN bd[user_id].badges ELSE EmptyMap
        newly_earned == newly_earned_badges(st[user_id], earned_badges)
        all_earned == with_new_badges(earned_badges, newly_earned, utcnow)
    IN  IF newly_earned # {}
        THEN [stats |-> [st EXCEPT ![user_id].badgesEarned =
                                badges_earned_count(earned_badges, newly_earned)],
              badges |-> [bd EXCEPT ![user_id] = [userId |-> user_id, badges |-> all_earned]],
              result |-> newly_earned]
        ELSE [stats |-> st,
              badges |-> IF bd[user_id] # NoDoc THEN bd
                         ELSE [bd EXCEPT ![user_id] = [userId |-> user_id, badges |-> EmptyMap]],
              result |-> {}]

(***************************************************************************)
(* increment_activity_count and add_to_total_earnings                      *)
(***************************************************************************)
increment_activity_count(st, user_id) ==
    IF st[user_id] # NoDoc
    THEN [st EXCEPT ![user_id].totalActivitiesLogged = @ + 1]
    ELSE [st EXCEPT ![user_id] =
             [userId |-> user_id, totalActivitiesLogged |-> 1, level |-> 1,
              experiencePoints |-> 0, totalExperience |-> 0, currentStreak |-> 0,
              longestStreak |-> 0, lastActivityDate |-> NoDate,
              totalEarnings |-> 0, badgesEarned |-> 0]]

\* Variant: the update writing the amount in place of the new total.
add_to_total_earnings_overwritten(st, user_id, amount) ==
    IF st[user_id] # NoDoc
    THEN [st EXCEPT ![user_id].totalEarnings = amount]
    ELSE [st EXCEPT ![user_id] =
             [userId |-> user_id, totalEarnings |-> amount, level |-> 1,
              experiencePoints |-> 0, totalExperience |-> 0, currentStreak |-> 0,
              longestStreak |-> 0, lastActivityDate |-> NoDate,
              totalActivitiesLogged |-> 0, badgesEarned |-> 0]]

add_to_total_earnings(st, user_id, amount) ==
    IF st[user_id] # NoDoc
    THEN [st EXCEPT ![user_id].totalEarnings = @ + amount]
    ELSE [st EXCEPT ![user_id] =
             [userId |-> user_id, totalEarnings |-> amount, level |-> 1,
              experiencePoints |-> 0, totalExperience |-> 0, currentStreak |-> 0,
              longestStreak |-> 0, lastActivityDate |-> NoDate,
              totalActivitiesLogged |-> 0, badgesEarned |-> 0]]

(***************************************************************************)
(* calculate_earnings_for_user                                             *)
(***************************************************************************)
\* activity id -> rate over the activities of the family; 0 for any other id
activity_rate(ac, family_id, activity_id) ==
    IF /\ activity_id \in DOMAIN ac
       /\ ac[activity_id] # NoDoc
       /\ ac[activity_id].familyId = family_id
    THEN ac[activity_id].rate
    ELSE 0

\* Variant of the query: the window open at its end.
logs_in_window_before_end(lg, user_id, family_id, start_time, end_time) ==
    {id \in DOMAIN lg :
        /\ lg[id] # NoDoc
        /\ lg[id].userId = user_id
        /\ lg[id].familyId = family_id
        /\ lg[id].timestamp >= start_time
        /\ lg[id].timestamp < end_time}

\* the ids of the log documents the query streams
logs_in_window(lg, user_id, family_id, start_time, end_time) ==
    {id \in DOMAIN lg :
        /\ lg[id] # NoDoc
        /\ lg[id].userId = user_id
        /\ lg[id].familyId = family_id
        /\ lg[id].timestamp >= start_time
        /\ lg[id].timestamp <= end_time}

\* Variant: every log that is not rejected counted under the status asked for.
RECURSIVE earnings_of_unrejected(_, _, _, _, _)
earnings_of_unrejected(lg, ac, family_id, ids, verification_status) ==
    IF ids = {} THEN 0
    ELSE LET id == CHOOSE x \in ids : TRUE
             log_earnings == lg[id].units * activity_rate(ac, family_id, lg[id].activityId)
         IN  (IF lg[id].verificationStatus # "rejected" THEN log_earnings ELSE 0)
             + earnings_of_unrejected(lg, ac, family_id, ids \ {id}, verification_status)

\* the loop over the streamed logs: the sum of units * rate over the logs of
\* ids whose status is verification_status
RECURSIVE earnings_of(_, _, _, _, _)
earnings_of(lg, ac, family_id, ids, verification_status) ==
    IF ids = {} THEN 0
    ELSE LET id == CHOOSE x \in ids : TRUE
             log_earnings == lg[id].units * activity_rate(ac, family_id, lg[id].activityId)
         IN  (IF lg[id].verificationStatus = verification_status THEN log_earnings ELSE 0)
             + earnings_of(lg, ac, family_id, ids \ {id}, verification_status)

calculate_earnings_for_user(lg, ac, user_id, family_id, start_time, end_time) ==
    LET ids == logs_in_window(lg, user_id, family_id, start_time, end_time)
    IN  [pending_earnings |-> earnings_of(lg, ac, family_id, ids, "pending"),
         verified_earnings |-> earnings_of(lg, ac, family_id, ids, "approved")]

(***************************************************************************)
(* Store failures.  Every method of the gamification service runs inside   *)
(* try/except; a fault names the store call of the method that raises,     *)
(* "none" when every call goes through.  A fault on a call the method does *)
(* not reach has no effect.                                                *)
(***************************************************************************)
Faults == {"none", "get", "set", "update", "update_stats"}
StoreError == [error |-> "store failure"]       \* the dict {'error': str(e)}

\* the store call named by fault is one award_xp makes
award_xp_fault_reached(st, user_id, fault) ==
    \/ fault = "get"
    \/ fault = "set" /\ st[user_id] = NoDoc
    \/ fault = "update"

\* the store call named by fault is one update_streak makes
update_streak_fault_reached(st, user_id, utcnow, fault) ==
    \/ fault = "get"
    \/ fault = "set" /\ st[user_id] = NoDoc
    \/ /\ fault = "update"
       /\ st[user_id] # NoDoc
       /\ streak_step(st[user_id].lastActivityDate, st[user_id].currentStreak,
                      utcnow).write

\* Variant: award_xp answering a store error with the result of an award of
\* nothing.
award_xp_try_untagged(st, user_id, xp_amount, fault) ==
    IF award_xp_fault_reached(st, user_id, fault)
    THEN [stats |-> st, result |-> award_xp(st, user_id, 0).result,
          awards |-> <<xp_amount>>]
    ELSE [stats |-> award_xp(st, user_id, xp_amount).stats,
          result |-> award_xp(st, user_id, xp_amount).result,
          awards |-> <<xp_amount>>]

\* award_xp: get, set for a user without a document, update
award_xp_try(st, user_id, xp_amount, fault) ==
    IF fault = "get" \/ (fault = "set" /\ st[user_id] = NoDoc)
    THEN [stats |-> st, result |-> StoreError, awards |-> <<xp_amount>>]
    ELSE IF fault = "update"
    THEN [stats |-> IF st[user_id] = NoDoc
                    THEN [st EXCEPT ![user_id] = award_xp_new_stats(user_id)]
                    ELSE st,
          result |-> StoreError, awards |-> <<xp_amount>>]
    ELSE [stats |-> award_xp(st, user_id, xp_amount).stats,
          result |-> award_xp(st, user_id, xp_amount).result,
          awards |-> <<xp_amount>>]

\* update_streak: get, set for a user without a document, update unless the
\* call is a same-day repeat; the bonus award_xp call goes through
update_streak_try(st, user_id, utcnow, fault) ==
    IF \/ fault = "get"
       \/ fault = "set" /\ st[user_id] = NoDoc
       \/ /\ fault = "update"
          /\ st[user_id] # NoDoc
          /\ streak_step(st[user_id].lastActivityDate, st[user_id].currentStreak,
                         utcnow).write
    THEN [stats |-> st, result |-> StoreError, awards |-> <<>>]
    ELSE update_streak(st, user_id, utcnow)

\* get, then update of an existing document or set of a new one
counter_fault_reached(st, user_id, fault) ==
    \/ fault = "get"
    \/ fault = "update" /\ st[user_id] # NoDoc
    \/ fault = "set" /\ st[user_id] = NoDoc

\* increment_activity_count: the error is logged and nothing is returned
increment_activity_count_try(st, user_id, fault) ==
    IF counter_fault_reached(st, user_id, fault)
    THEN [stats |-> st, failed |-> TRUE]
    ELSE [stats |-> increment_activity_count(st, user_id), failed |-> FALSE]

\* add_to_total_earnings: the error is logged and nothing is returned
add_to_total_earnings_try(st, user_id, amount, fault) ==
    IF counter_fault_reached(st, user_id, fault)
    THEN [stats |-> st, failed |-> TRUE]
    ELSE [stats |-> add_to_total_earnings(st, user_id, amount), failed |-> FALSE]

\* check_and_award_badges: get of the stats, get of the unlock document, set
\* of an empty unlock document for a user without one, update of the unlock
\* map, update of badgesEarned; on an error the method returns []
check_and_award_badges_try(st, bd, user_id, utcnow, fault) ==
    LET ok == check_and_award_badges(st, bd, user_id, utcnow)
        created == IF bd[user_id] # NoDoc THEN bd
                   ELSE [bd EXCEPT ![user_id] = [userId |-> user_id, badges |-> EmptyMap]]
    IN  IF fault = "get"
        THEN [stats |-> st, badges |-> bd, result |-> {}, failed |-> TRUE]
        ELSE IF st[user_id] = NoDoc
        THEN [stats |-> ok.stats, badges |-> ok.badges, result |-> ok.result,
              failed |-> FALSE]
        ELSE IF fault = "set" /\ bd[user_id] = NoDoc
        THEN [stats |-> st, badges |-> bd, result |-> {}, failed |-> TRUE]
        ELSE IF fault = "update" /\ ok.result # {}
        THEN [stats |-> st, badges |-> created, result |-> {}, failed |-> TRUE]
        ELSE IF fault = "update_stats" /\ ok.result # {}
        THEN [stats |-> st, badges |-> ok.badges, result |-> {}, failed |-> TRUE]
        ELSE [stats |-> ok.stats, badges |-> ok.badges, result |-> ok.result,
              failed |-> FALSE]

\* the fault of every gamification step of one request
FaultPlan(award, streak, count, earnings, check) ==
    [award_xp |-> award, update_streak |-> streak, increment_activity_count |-> count,
     add_to_total_earnings |-> earnings, check_and_award_badges |-> check]

NoFaults == FaultPlan("none", "none", "none", "none", "none")

\* one entry of the trace of a request: the step attempted and how it ended
Step(name, failed) == [step |-> name, failed |-> failed]

(***************************************************************************)
(* calculate_xp_for_earnings: int(amount * 10).  The caller forms amount   *)
(* as the double product rate * units, the rate being a double of dollars; *)
(* rates are in cents here, so the exact value is (rate * units) / 10 and  *)
(* int() truncates the double that stands for it.  For rates of 1 to 300   *)
(* cents and 1 to 5 units the double product times ten falls just below an *)
(* integer for the pairs of TruncatedBelow (0.7 * 3 * 10 is                *)
(* 20.999999999999996) and nowhere else differs from the exact value       *)
(* before truncation by as much as a unit.                                 *)
(***************************************************************************)
TruncatedBelow ==
    {<<70, 3>>, <<94, 5>>, <<114, 5>>, <<118, 5>>, <<140, 3>>, <<166, 5>>,
     <<188, 5>>, <<190, 3>>, <<226, 5>>, <<228, 5>>, <<236, 5>>, <<238, 5>>,
     <<280, 3>>}

calculate_xp_for_earnings(rate, units) ==
    IF <<rate, units>> \in TruncatedBelow
    THEN (rate * units) \div 10 - 1
    ELSE (rate * units) \div 10

(***************************************************************************)
(* The log endpoints (routers/logs.py) over the store db: a record of the  *)
(* five collections.                                                       *)
(***************************************************************************)
Response(status, log) == [status |-> status, log |-> log]

\* require_role: the caller's profile is read from the users collection
require_role(us, uid, required_role) ==
    IF us[uid] = NoDoc THEN 404
    ELSE IF us[uid].role # required_role THEN 403
    ELSE 200

verify_family_membership(us, user_id, family_id) ==
    /\ us[user_id] # NoDoc
    /\ us[user_id].familyId = family_id

\* validate_units: a positive integer
validate_units(units) == units > 0

\* validate_verification_status
validate_verification_status(status_value) == status_value \in {"approved", "rejected"}

\* the document create_log writes
log_data(log_id, activity_id, uid, family_id, units, current_time) ==
    [id |-> log_id, activityId |-> activity_id, userId |-> uid, familyId |-> family_id,
     units |-> units, timestamp |-> current_time, verificationStatus |-> "pending",
     verifiedBy |-> None, verifiedAt |-> NoDate]

\* Variant: the badge check ahead of the counter increment.
log_gamification_check_first(st, bd, uid, utcnow, faults) ==
    LET a == award_xp_try(st, uid, 5, faults.award_xp)
        s == update_streak_try(a.stats, uid, utcnow, faults.update_streak)
        c == check_and_award_badges_try(s.stats, bd, uid, utcnow,
                                        faults.check_and_award_badges)
        i == increment_activity_count_try(c.stats, uid, faults.increment_activity_count)
    IN  [stats |-> i.stats, badges |-> c.badges, awards |-> a.awards \o s.awards,
         new_badges |-> c.result,
         steps |-> <<Step("award_xp", "error" \in DOMAIN a.result),
                     Step("update_streak", "error" \in DOMAIN s.result),
                     Step("check_and_award_badges", c.failed),
                     Step("increment_activity_count", i.failed)>>]

\* Variant: the service methods letting their errors out, so that the
\* try block of the endpoint is left at the first step that fails.
log_gamification_until_failure(st, bd, uid, utcnow, faults) ==
    LET a == award_xp_try(st, uid, 5, faults.award_xp)
        s == update_streak_try(a.stats, uid, utcnow, faults.update_streak)
        i == increment_activity_count_try(s.stats, uid, faults.increment_activity_count)
        c == check_and_award_badges_try(i.stats, bd, uid, utcnow,
                                        faults.check_and_award_badges)
        sa == Step("award_xp", "error" \in DOMAIN a.result)
        ss == Step("update_streak", "error" \in DOMAIN s.result)
        si == Step("increment_activity_count", i.failed)
        sc == Step("check_and_award_badges", c.failed)
    IN  IF sa.failed
        THEN [stats |-> a.stats, badges |-> bd, awards |-> a.awards,
              new_badges |-> {}, steps |-> <<sa>>]
        ELSE IF ss.failed
        THEN [stats |-> s.stats, badges |-> bd, awards |-> a.awards \o s.awards,
              new_badges |-> {}, steps |-> <<sa, ss>>]
        ELSE IF si.failed
        THEN [stats |-> i.stats, badges |-> bd, awards |-> a.awards \o s.awards,
              new_badges |-> {}, steps |-> <<sa, ss, si>>]
        ELSE [stats |-> c.stats, badges |-> c.badges, awards |-> a.awards \o s.awards,
              new_badges |-> c.result, steps |-> <<sa, ss, si, sc>>]

\* the gamification block of create_log: award_xp(5), update_streak,
\* increment_activity_count, check_and_award_badges, each on what the one
\* before left in the store
log_gamification(st, bd, uid, utcnow, faults) ==
    LET a == award_xp_try(st, uid, 5, faults.award_xp)
        s == update_streak_try(a.stats, uid, utcnow, faults.update_streak)
        i == increment_activity_count_try(s.stats, uid, faults.increment_activity_count)
        c == check_and_award_badges_try(i.stats, bd, uid, utcnow,
                                        faults.check_and_award_badges)
    IN  [stats |-> c.stats, badges |-> c.badges, awards |-> a.awards \o s.awards,
         new_badges |-> c.result,
         steps |-> <<Step("award_xp", "error" \in DOMAIN a.result),
                     Step("update_streak", "error" \in DOMAIN s.result),
                     Step("increment_activity_count", i.failed),
                     Step("check_and_award_badges", c.failed)>>]

\* what a request that ends in an HTTPException leaves: the store as it was
Refused(db, status) ==
    [db |-> db, response |-> Response(status, NoDoc), steps |-> <<>>, awards |-> <<>>,
     new_badges |-> {}, earnings |-> 0]

\* create_log by the caller uid; log_id is the id the store hands out
create_log(db, uid, activity_id, units, log_id, utcnow, faults) ==
    IF require_role(db.users, uid, "child") # 200
    THEN Refused(db, require_role(db.users, uid, "child"))
    ELSE IF ~validate_units(units) THEN Refused(db, 400)
    ELSE IF db.activities[activity_id] = NoDoc THEN Refused(db, 404)
    ELSE IF ~verify_family_membership(db.users, uid, db.activities[activity_id].familyId)
    THEN Refused(db, 403)
    ELSE
    LET log_entry == log_data(log_id, activity_id, uid,
                              db.activities[activity_id].familyId, units, utcnow)
        g == log_gamification(db.stats, db.badges, uid, utcnow, faults)
    IN  [db |-> [db EXCEPT !.logs = [@ EXCEPT ![log_id] = log_entry],
                           !.stats = g.stats,
                           !.badges = g.badges],
         response |-> Response(201, log_entry),
         steps |-> g.steps, awards |-> g.awards, new_badges |-> g.new_badges,
         earnings |-> 0]

\* create_log up to its write: the status of the HTTPException raised, 200
\* when the request goes on to write the log
create_log_check(db, uid, activity_id, units) ==
    IF require_role(db.users, uid, "child") # 200
    THEN require_role(db.users, uid, "child")
    ELSE IF ~validate_units(units) THEN 400
    ELSE IF db.activities[activity_id] = NoDoc THEN 404
    ELSE IF ~verify_family_membership(db.users, uid, db.activities[activity_id].familyId)
    THEN 403
    ELSE 200

\* create_log from its write on: the log document set with the family_id
\* read from the activity earlier, then the gamification steps
create_log_commit(db, uid, activity_id, family_id, units, log_id, utcnow, faults) ==
    LET log_entry == log_data(log_id, activity_id, uid, family_id, units, utcnow)
        g == log_gamification(db.stats, db.badges, uid, utcnow, faults)
    IN  [db |-> [db EXCEPT !.logs = [@ EXCEPT ![log_id] = log_entry],
                           !.stats = g.stats,
                           !.badges = g.badges],
         response |-> Response(201, log_entry),
         steps |-> g.steps, awards |-> g.awards, new_badges |-> g.new_badges,
         earnings |-> 0]

\* the gamification block of verify_log for an approved log: when the
\* activity still exists, award_xp of the XP for the earnings, then
\* add_to_total_earnings, then check_and_award_badges
approval_rewards(st, bd, ac, log_entry, utcnow, faults) ==
    IF ac[log_entry.activityId] = NoDoc
    THEN [stats |-> st, badges |-> bd, awards |-> <<>>, new_badges |-> {},
          steps |-> <<>>, earnings |-> 0]
    ELSE
    LET rate == ac[log_entry.activityId].rate
        earnings == rate * log_entry.units
        xp_amount == calculate_xp_for_earnings(rate, log_entry.units)
        a == award_xp_try(st, log_entry.userId, xp_amount, faults.award_xp)
        e == add_to_total_earnings_try(a.stats, log_entry.userId, earnings,
                                       faults.add_to_total_earnings)
        c == check_and_award_badges_try(e.stats, bd, log_entry.userId, utcnow,
                                        faults.check_and_award_badges)
    IN  [stats |-> c.stats, badges |-> c.badges, awards |-> a.awards,
         new_badges |-> c.result,
         steps |-> <<Step("award_xp", "error" \in DOMAIN a.result),
                     Step("add_to_total_earnings", e.failed),
                     Step("check_and_award_badges", c.failed)>>,
         earnings |-> earnings]

\* Variant: the test of the stored status left out.
verify_log_check_any_status(db, uid, log_id, status_value) ==
    IF require_role(db.users, uid, "parent") # 200
    THEN require_role(db.users, uid, "parent")
    ELSE IF ~validate_verification_status(status_value) THEN 400
    ELSE IF db.logs[log_id] = NoDoc THEN 404
    ELSE IF ~verify_family_membership(db.users, uid, db.logs[log_id].familyId) THEN 403
    ELSE 200

\* verify_log up to its write: the status of the HTTPException raised, 200
\* when the request goes on to the write
verify_log_check(db, uid, log_id, status_value) ==
    IF require_role(db.users, uid, "parent") # 200
    THEN require_role(db.users, uid, "parent")
    ELSE IF ~validate_verification_status(status_value) THEN 400
    ELSE IF db.logs[log_id] = NoDoc THEN 404
    ELSE IF ~verify_family_membership(db.users, uid, db.logs[log_id].familyId) THEN 403
    ELSE IF db.logs[log_id].verificationStatus # "pending" THEN 400
    ELSE 200

\* Variant: the rewards run for every verdict, rejections included.
verify_log_commit_rewards_any_verdict(db, uid, log_id, status_value, utcnow, faults) ==
    IF db.logs[log_id] = NoDoc THEN Refused(db, 500)
    ELSE
    LET log_entry == [db.logs[log_id] EXCEPT !.verificationStatus = status_value,
                                             !.verifiedBy = uid,
                                             !.verifiedAt = Date(utcnow)]
        written == [db EXCEPT !.logs = [@ EXCEPT ![log_id] = log_entry]]
        g == approval_rewards(db.stats, db.badges, db.activities, log_entry, utcnow,
                              faults)
    IN  [db |-> [written EXCEPT !.stats = g.stats, !.badges = g.badges],
         response |-> Response(200, log_entry),
         steps |-> g.steps, awards |-> g.awards, new_badges |-> g.new_badges,
         earnings |-> g.earnings]

\* verify_log from its write on: the update of the log document, the read
\* of the updated document and, for an approval, the rewards.  update() of
\* a document that is gone raises, which the endpoint answers with 500.
verify_log_commit(db, uid, log_id, status_value, utcnow, faults) ==
    IF db.logs[log_id] = NoDoc THEN Refused(db, 500)
    ELSE
    LET log_entry == [db.logs[log_id] EXCEPT !.verificationStatus = status_value,
                                             !.verifiedBy = uid,
                                             !.verifiedAt = Date(utcnow)]
        written == [db EXCEPT !.logs = [@ EXCEPT ![log_id] = log_entry]]
        g == approval_rewards(db.stats, db.badges, db.activities, log_entry, utcnow,
                              faults)
    IN  IF status_value = "approved"
        THEN [db |-> [written EXCEPT !.stats = g.stats, !.badges = g.badges],
              response |-> Response(200, log_entry),
              steps |-> g.steps, awards |-> g.awards, new_badges |-> g.new_badges,
              earnings |-> g.earnings]
        ELSE [db |-> written, response |-> Response(200, log_entry),
              steps |-> <<>>, awards |-> <<>>, new_badges |-> {}, earnings |-> 0]

\* verify_log by the caller uid, run without interruption
verify_log(db, uid, log_id, status_value, utcnow, faults) ==
    IF verify_log_check(db, uid, log_id, status_value) # 200
    THEN Refused(db, verify_log_check(db, uid, log_id, status_value))
    ELSE verify_log_commit(db, uid, log_id, status_value, utcnow, faults)

\* Variant: the cascade deleting only the logs still pending.
delete_activity_pending_logs(db, uid, activity_id) ==
    IF require_role(db.users, uid, "parent") # 200
    THEN [db |-> db, status |-> require_role(db.users, uid, "parent"), deleted |-> 0]
    ELSE IF db.activities[activity_id] = NoDoc
    THEN [db |-> db, status |-> 404, deleted |-> 0]
    ELSE IF ~verify_family_membership(db.users, uid, db.activities[activity_id].familyId)
    THEN [db |-> db, status |-> 403, deleted |-> 0]
    ELSE
    LET log_docs == {id \in DOMAIN db.logs :
                        /\ db.logs[id] # NoDoc
                        /\ db.logs[id].activityId = activity_id
                        /\ db.logs[id].verificationStatus = "pending"}
    IN  [db |-> [db EXCEPT !.logs = [id \in DOMAIN db.logs |->
                                        IF id \in log_docs THEN NoDoc ELSE db.logs[id]],
                           !.activities = [@ EXCEPT ![activity_id] = NoDoc]],
         status |-> 200, deleted |-> Cardinality(log_docs)]

\* delete_activity by the caller uid: the logs of the activity, then the
\* activity; deleted is the number of logs removed
delete_activity(db, uid, activity_id) ==
    IF require_role(db.users, uid, "parent") # 200
    THEN [db |-> db, status |-> require_role(db.users, uid, "parent"), deleted |-> 0]
    ELSE IF db.activities[activity_id] = NoDoc
    THEN [db |-> db, status |-> 404, deleted |-> 0]
    ELSE IF ~verify_family_membership(db.users, uid, db.activities[activity_id].familyId)
    THEN [db |-> db, status |-> 403, deleted |-> 0]
    ELSE
    LET log_docs == {id \in DOMAIN db.logs :
                        db.logs[id] # NoDoc /\ db.logs[id].activityId = activity_id}
    IN  [db |-> [db EXCEPT !.logs = [id \in DOMAIN db.logs |->
                                        IF id \in log_docs THEN NoDoc ELSE db.logs[id]],
                           !.activities = [@ EXCEPT ![activity_id] = NoDoc]],
         status |-> 200, deleted |-> Cardinality(log_docs)]

(***************************************************************************)
(* The family endpoints (routers/families.py).                             *)
(***************************************************************************)
\* the invite codes as requests spell them
InviteInputs == {"ABC123", "abc123", "XYZ789", "xyz789", "ABC12"}

\* str.strip().upper() on the inputs above
strip_upper(code) ==
    CASE code = "abc123" -> "ABC123"
      [] code = "xyz789" -> "XYZ789"
      [] OTHER -> code

\* INVITE_CODE_PATTERN: exactly six characters of A-Z and 0-9
invite_code_pattern_match(code) == code \in {"ABC123", "XYZ789"}

\* validate_invite_code: the normalized code, or ValueError
validate_invite_code(code) ==
    IF invite_code_pattern_match(strip_upper(code))
    THEN [valid |-> TRUE, code |-> strip_upper(code)]
    ELSE [valid |-> FALSE, code |-> None]

\* the families a query where('inviteCode', '==', code) finds
families_with_code(fam, code) ==
    {f \in DOMAIN fam : fam[f] # NoDoc /\ fam[f].inviteCode = code}

\* ensure_unique_invite_code: the codes it can return, none when every draw
\* is taken (RuntimeError after ten attempts)
ensure_unique_invite_code(fam) ==
    {code \in InviteCodes : families_with_code(fam, code) = {}}

RECURSIVE Contains(_, _)
\* uid in members
Contains(members, uid) ==
    IF members = <<>> THEN FALSE
    ELSE Head(members) = uid \/ Contains(Tail(members), uid)

\* what a family request that ends in an HTTPException leaves
FamilyRefused(us, fam, status) ==
    [users |-> us, families |-> fam, status |-> status, family_id |-> None]

\* create_family by the caller uid; family_id is the id the store hands out,
\* invite_code what ensure_unique_invite_code returned, None for its error
create_family(us, fam, uid, family_id, invite_code, utcnow) ==
    IF us[uid] = NoDoc THEN FamilyRefused(us, fam, 404)
    ELSE IF us[uid].role # "parent" THEN FamilyRefused(us, fam, 403)
    ELSE IF us[uid].familyId # None THEN FamilyRefused(us, fam, 400)
    ELSE IF invite_code = None THEN FamilyRefused(us, fam, 500)
    ELSE [users |-> [us EXCEPT ![uid].familyId = family_id],
          families |-> [fam EXCEPT ![family_id] =
                           Family(family_id, invite_code, uid, <<uid>>, Date(utcnow))],
          status |-> 201, family_id |-> family_id]

\* Variant: join_family without the test of the caller's familyId.
join_family_any_member(us, fam, uid, code) ==
    IF ~validate_invite_code(code).valid THEN FamilyRefused(us, fam, 400)
    ELSE IF us[uid] = NoDoc THEN FamilyRefused(us, fam, 404)
    ELSE IF families_with_code(fam, validate_invite_code(code).code) = {}
    THEN FamilyRefused(us, fam, 400)
    ELSE
    LET family_id == CHOOSE f \in families_with_code(fam, validate_invite_code(code).code) : TRUE
        members == fam[family_id].members
    IN  [users |-> [us EXCEPT ![uid].familyId = family_id],
         families |-> IF Contains(members, uid) THEN fam
                      ELSE [fam EXCEPT ![family_id].members = Append(members, uid)],
         status |-> 200, family_id |-> family_id]

\* join_family by the caller uid with the invite code as sent
join_family(us, fam, uid, code) ==
    IF ~validate_invite_code(code).valid THEN FamilyRefused(us, fam, 400)
    ELSE IF us[uid] = NoDoc THEN FamilyRefused(us, fam, 404)
    ELSE IF us[uid].familyId # None THEN FamilyRefused(us, fam, 400)
    ELSE IF families_with_code(fam, validate_invite_code(code).code) = {}
    THEN FamilyRefused(us, fam, 400)
    ELSE
    LET family_id == CHOOSE f \in families_with_code(fam, validate_invite_code(code).code) : TRUE
        members == fam[family_id].members
    IN  [users |-> [us EXCEPT ![uid].familyId = family_id],
         families |-> IF Contains(members, uid) THEN fam
                      ELSE [fam EXCEPT ![family_id].members = Append(members, uid)],
         status |-> 200, family_id |-> family_id]

(***************************************************************************)
(* The earnings query under store failures, and the earnings endpoints     *)
(* (routers/earnings.py).  calculate_earnings_for_user logs the error of a *)
(* failed store call and raises it again.                                  *)
(***************************************************************************)
EarningsFaults == {"none", "users", "activities", "logs"}
Raised == [raised |-> TRUE]                     \* the call ended in an exception
Returns(value) == [raised |-> FALSE, value |-> value]

\* Variant: the error swallowed and zero earnings returned.
calculate_earnings_for_user_try_swallowed(lg, ac, user_id, family_id, start_time, end_time, fault) ==
    IF fault \in {"activities", "logs"}
    THEN Returns([pending_earnings |-> 0, verified_earnings |-> 0])
    ELSE Returns(calculate_earnings_for_user(lg, ac, user_id, family_id, start_time,
                                             end_time))

\* calculate_earnings_for_user when the stream of the activities or of the
\* logs raises
calculate_earnings_for_user_try(lg, ac, user_id, family_id, start_time, end_time, fault) ==
    IF fault \in {"activities", "logs"}
    THEN Raised
    ELSE Returns(calculate_earnings_for_user(lg, ac, user_id, family_id, start_time,
                                             end_time))

\* midnight of the day of utcnow
start_of_day(utcnow) == utcnow - (utcnow % TicksPerDay)

\* the window from midnight to 23:59:59 of the day of utcnow; the last
\* instant of a day is its last tick
calculate_today_earnings(lg, ac, user_id, family_id, utcnow, fault) ==
    calculate_earnings_for_user_try(lg, ac, user_id, family_id, start_of_day(utcnow),
                                    start_of_day(utcnow) + TicksPerDay - 1, fault)

\* the window of the seven days up to utcnow
calculate_weekly_earnings(lg, ac, user_id, family_id, utcnow, fault) ==
    calculate_earnings_for_user_try(lg, ac, user_id, family_id,
                                    utcnow - 7 * TicksPerDay, utcnow, fault)

\* the response of an earnings endpoint: the Earnings object, or the status
\* of the HTTPException
Earnings(pending, verified) == [status |-> 200, pending |-> pending, verified |-> verified]
EarningsError(status) == [status |-> status, pending |-> None, verified |-> None]

\* the part the two endpoints share, r being what the service call gave
earnings_endpoint(us, uid, user_id, fault, r) ==
    IF uid # user_id THEN EarningsError(403)
    ELSE IF fault = "users" THEN EarningsError(500)
    ELSE IF us[user_id] = NoDoc THEN EarningsError(404)
    ELSE IF us[user_id].familyId = None THEN Earnings(0, 0)
    ELSE IF r.raised THEN EarningsError(500)
    ELSE Earnings(r.value.pending_earnings, r.value.verified_earnings)

get_today_earnings(db, uid, user_id, utcnow, fault) ==
    earnings_endpoint(db.users, uid, user_id, fault,
                      calculate_today_earnings(db.logs, db.activities, user_id,
                                               db.users[user_id].familyId, utcnow, fault))

get_weekly_earnings(db, uid, user_id, utcnow, fault) ==
    earnings_endpoint(db.users, uid, user_id, fault,
                      calculate_weekly_earnings(db.logs, db.activities, user_id,
                                                db.users[user_id].familyId, utcnow, fault))

(***************************************************************************)
(* The state after construction: an empty store.                           *)
(***************************************************************************)
NoCall == [op |-> "none", user |-> None, arg |-> None, at |-> 0,
           pre |-> NoDoc, preBadges |-> NoDoc, result |-> None, awards |-> <<>>]

\* no request in flight
Idle == [pc |-> "idle"]

\* nothing asked of the log endpoints yet
NoLedger ==
    [issued |-> {},                         \* the log ids handed out by create_log
     rates |-> [a \in ActivityIds |-> 0],    \* the rate each activity was created with
     created |-> [u \in Users |-> 0],        \* logs written by create_log, per owner
     approved |-> [u \in Users |-> 0],       \* rate * units of the logs approved, per owner
     decided |-> [id \in LogIds |-> 0],      \* times verify_log wrote the log's status
     rewarded |-> [id \in LogIds |-> 0]]     \* times verify_log ran the approval rewards

Init ==
    /\ now = 0
    /\ stats = [u \in Users |-> NoDoc]
    /\ badges = [u \in Users |-> NoDoc]
    /\ activities = [a \in ActivityIds |-> NoDoc]
    /\ logs = [l \in LogIds |-> NoDoc]
    /\ awarded = [u \in Users |-> 0]
    /\ lastCall = NoCall
    /\ users = Profiles
    /\ reqs = [r \in RequestIds |-> Idle]
    /\ ledger = NoLedger
    /\ families = JoinedFamilies

(***************************************************************************)
(* One action per handler.  Handlers for one user run one at a time.       *)
(***************************************************************************)
Call(op, u, arg, result, awards) ==
    [op |-> op, user |-> u, arg |-> arg, at |-> now,
     pre |-> stats[u], preBadges |-> badges[u], result |-> result, awards |-> awards]

RECURSIVE SumSeq(_)
SumSeq(q) == IF q = <<>> THEN 0 ELSE Head(q) + SumSeq(Tail(q))

TotalXP(u) == IF stats[u] = NoDoc THEN 0 ELSE stats[u].totalExperience

AwardXp(u, xp_amount, cap) ==
    /\ TotalXP(u) + xp_amount <= cap
    /\ LET r == award_xp(stats, u, xp_amount)
       IN  /\ stats' = r.stats
           /\ lastCall' = Call("award_xp", u, xp_amount, r.result, <<xp_amount>>)
    /\ awarded' = [awarded EXCEPT ![u] = @ + xp_amount]
    /\ UNCHANGED <<now, badges, activities, logs, users, reqs, ledger, families>>

UpdateStreak(u) ==
    /\ LET r == update_streak(stats, u, now)
       IN  /\ stats' = r.stats
           /\ lastCall' = Call("update_streak", u, None, r.result, r.awards)
           /\ awarded' = [awarded EXCEPT ![u] = @ + SumSeq(r.awards)]
    /\ UNCHANGED <<now, badges, activities, logs, users, reqs, ledger, families>>

CheckAndAwardBadges(u) ==
    /\ LET r == check_and_award_badges(stats, badges, u, now)
       IN  /\ stats' = r.stats
           /\ badges' = r.badges
           /\ lastCall' = Call("check_and_award_badges", u, None, r.result, <<>>)
    /\ UNCHANGED <<now, activities, logs, awarded, users, reqs, ledger, families>>

IncrementActivityCount(u, cap) ==
    /\ stats[u] # NoDoc => stats[u].totalActivitiesLogged < cap
    /\ stats' = increment_activity_count(stats, u)
    /\ lastCall' = Call("increment_activity_count", u, None, None, <<>>)
    /\ UNCHANGED <<now, badges, activities, logs, awarded, users, reqs, ledger, families>>

AddToTotalEarnings(u, amount, cap) ==
    /\ (IF stats[u] = NoDoc THEN 0 ELSE stats[u].totalEarnings) + amount <= cap
    /\ stats' = add_to_total_earnings(stats, u, amount)
    /\ lastCall' = Call("add_to_total_earnings", u, amount, None, <<>>)
    /\ UNCHANGED <<now, badges, activities, logs, awarded, users, reqs, ledger, families>>

\* the clock advances between handlers
Tick(step, limit) ==
    /\ now + step <= limit
    /\ now' = now + step
    /\ lastCall' = NoCall
    /\ UNCHANGED <<stats, badges, activities, logs, awarded, users, reqs, ledger, families>>

CalculateEarnings(u, family_id, start_time, end_time) ==
    /\ lastCall' = Call("calculate_earnings_for_user", u,
                        [family_id |-> family_id, start_time |-> start_time,
                         end_time |-> end_time],
                        calculate_earnings_for_user(logs, activities, u, family_id,
                                                    start_time, end_time),
                        <<>>)
    /\ UNCHANGED <<now, stats, badges, activities, logs, awarded, users, reqs, ledger, families>>

(***************************************************************************)
(* Spec: every gamification handler, for one user, calls serialized.       *)
(***************************************************************************)
Player == "child1"
XpAmounts == {400}
EarningAmounts == {100}

Next ==
    \/ \E xp_amount \in XpAmounts : AwardXp(Player, xp_amount, MaxTotalXP)
    \/ UpdateStreak(Player)
    \/ IncrementActivityCount(Player, MaxActivities)
    \/ \E amount \in EarningAmounts : AddToTotalEarnings(Player, amount, MaxEarnings)
    \/ CheckAndAwardBadges(Player)
    \/ Tick(TicksPerDay, MaxTime)

Spec == Init /\ [][Next]_vars

(***************************************************************************)
(* SpecEarnings: the earnings query over every store of up to two logs of  *)
(* three activities.                                                       *)
(***************************************************************************)
Activity(id, family_id, rate) == [id |-> id, familyId |-> family_id, rate |-> rate]

EarningsActivities ==
    [act1 |-> Activity("act1", "fam1", 150),
     act2 |-> Activity("act2", "fam1", 25),
     act3 |-> Activity("act3", "fam2", 200)]

UnitChoices == {1, 3}
Stamps == 0 .. MaxStamp

\* the log documents create_log and verify_log can leave under id
StoredLogs(id) ==
    {[id |-> id, activityId |-> a, userId |-> u,
      familyId |-> EarningsActivities[a].familyId, units |-> n, timestamp |-> t,
      verificationStatus |-> v,
      verifiedBy |-> IF v = "pending" THEN None ELSE "parent1",
      verifiedAt |-> IF v = "pending" THEN NoDate ELSE Date(t)] :
        a \in ActivityIds, u \in Users, n \in UnitChoices, t \in Stamps,
        v \in {"pending", "approved", "rejected"}}

InitEarnings ==
    /\ now = MaxStamp
    /\ stats = [u \in Users |-> NoDoc]
    /\ badges = [u \in Users |-> NoDoc]
    /\ activities = EarningsActivities
    /\ \E stored \in [LogIds -> StoredLogs("") \cup {NoDoc}] :
           logs = [id \in LogIds |->
                      IF stored[id] = NoDoc THEN NoDoc ELSE [stored[id] EXCEPT !.id = id]]
    /\ awarded = [u \in Users |-> 0]
    /\ lastCall = NoCall
    /\ users = Profiles
    /\ reqs = [r \in RequestIds |-> Idle]
    /\ ledger = NoLedger
    /\ families = JoinedFamilies

NextEarnings ==
    \E family_id \in Families, start_time \in Stamps, end_time \in Stamps :
        /\ start_time <= end_time
        /\ CalculateEarnings(Player, family_id, start_time, end_time)

SpecEarnings == InitEarnings /\ [][NextEarnings]_vars

(***************************************************************************)
(* SpecXP: the XP ledger under awards of many sizes; the clock stands      *)
(* still.                                                                  *)
(***************************************************************************)
LedgerAmounts == {0, 5, 100, 282, 400}

NextXP ==
    \/ \E xp_amount \in LedgerAmounts : AwardXp(Player, xp_amount, MaxTotalXP)
    \/ UpdateStreak(Player)
    \/ IncrementActivityCount(Player, MaxActivities)
    \/ \E amount \in EarningAmounts : AddToTotalEarnings(Player, amount, MaxEarnings)

SpecXP == Init /\ [][NextXP]_vars

(***************************************************************************)
(* SpecStreak: the streak over a horizon of two weeks, the clock moving    *)
(* by fractions of a day.                                                  *)
(***************************************************************************)
StreakHorizon == 28
StreakAmounts == {100}

NextStreak ==
    \/ UpdateStreak(Player)
    \/ \E xp_amount \in StreakAmounts : AwardXp(Player, xp_amount, 100)
    \/ Tick(1, StreakHorizon)

SpecStreak == Init /\ [][NextStreak]_vars

(***************************************************************************)
(* The endpoints as actions.  A request runs from its first store call to  *)
(* its response without another request in between.                        *)
(***************************************************************************)
Db == [users |-> users, stats |-> stats, badges |-> badges,
       activities |-> activities, logs |-> logs]

StatsOf(u) == IF u \in Users THEN stats[u] ELSE NoDoc
BadgesOf(u) == IF u \in Users THEN badges[u] ELSE NoDoc

\* the record of a request to a log endpoint: caller is who asked, user the
\* owner of the log, r what the handler returned
Request(op, caller, owner, arg, r) ==
    [op |-> op, user |-> owner, caller |-> caller, arg |-> arg, at |-> now,
     pre |-> StatsOf(owner), preBadges |-> BadgesOf(owner),
     result |-> r.response, awards |-> r.awards, steps |-> r.steps,
     new_badges |-> r.new_badges, earnings |-> r.earnings]

Awarded(owner, awards) ==
    IF owner \in Users THEN [awarded EXCEPT ![owner] = @ + SumSeq(awards)] ELSE awarded

\* the document id the store hands out: one never handed out before
NewLogId == CHOOSE id \in LogIds : id \notin ledger.issued

CreateLog(uid, activity_id, units, faults) ==
    /\ LogIds \ ledger.issued # {}
    /\ \E r \in {create_log(Db, uid, activity_id, units, NewLogId, now, faults)} :
           /\ stats' = r.db.stats
           /\ badges' = r.db.badges
           /\ logs' = r.db.logs
           /\ awarded' = Awarded(uid, r.awards)
           /\ lastCall' = Request("create_log", uid, uid,
                                  [activity_id |-> activity_id, units |-> units], r)
           /\ ledger' = IF r.response.status = 201
                        THEN [ledger EXCEPT !.issued = @ \cup {NewLogId},
                                            !.created[uid] = @ + 1]
                        ELSE ledger
    /\ UNCHANGED <<now, activities, users, reqs, families>>

\* the owner of a stored log, None for a log that is not there
OwnerOf(log_id) == IF logs[log_id] = NoDoc THEN None ELSE logs[log_id].userId

\* rate * units of a stored log, by the rate its activity was created with
Worth(log_id) == ledger.rates[logs[log_id].activityId] * logs[log_id].units

\* the ledger after verify_log answered with r
Verified(log_id, status_value, r) ==
    IF r.response.status # 200 THEN ledger
    ELSE IF status_value = "approved"
    THEN [ledger EXCEPT !.decided[log_id] = @ + 1,
                        !.rewarded[log_id] = @ + (IF r.steps # <<>> THEN 1 ELSE 0),
                        !.approved[OwnerOf(log_id)] = @ + Worth(log_id)]
    ELSE [ledger EXCEPT !.decided[log_id] = @ + 1]

VerifyLog(uid, log_id, status_value, faults) ==
    \E r \in {verify_log(Db, uid, log_id, status_value, now, faults)} :
        /\ stats' = r.db.stats
        /\ badges' = r.db.badges
        /\ logs' = r.db.logs
        /\ awarded' = Awarded(OwnerOf(log_id), r.awards)
        /\ lastCall' = Request("verify_log", uid, OwnerOf(log_id),
                               [log_id |-> log_id, status |-> status_value,
                                preLog |-> logs[log_id]], r)
        /\ ledger' = Verified(log_id, status_value, r)
        /\ UNCHANGED <<now, activities, users, reqs, families>>

DeleteActivity(uid, activity_id) ==
    \E r \in {delete_activity(Db, uid, activity_id)} :
        /\ activities' = r.db.activities
        /\ logs' = r.db.logs
        /\ lastCall' = [op |-> "delete_activity", user |-> None, caller |-> uid,
                        arg |-> [activity_id |-> activity_id], at |-> now,
                        result |-> [status |-> r.status, deleted |-> r.deleted]]
        /\ UNCHANGED <<now, stats, badges, awarded, users, reqs, ledger, families>>

(***************************************************************************)
(* SpecLogs: the log endpoints, requests serialized, no store failures.    *)
(* Children log the activities their parents created, parents approve or   *)
(* reject the logs and delete activities.                                  *)
(***************************************************************************)
LoggedActivities ==
    [act1 |-> Activity("act1", "fam1", 150),
     act2 |-> Activity("act2", "fam1", 70),
     act3 |-> Activity("act3", "fam2", 150)]

Statuses == {"approved", "rejected"}

\* the parents have created three activities; nothing is logged yet
InitLogs ==
    /\ now = 0
    /\ stats = [u \in Users |-> NoDoc]
    /\ badges = [u \in Users |-> NoDoc]
    /\ activities = LoggedActivities
    /\ logs = [l \in LogIds |-> NoDoc]
    /\ awarded = [u \in Users |-> 0]
    /\ lastCall = NoCall
    /\ users = Profiles
    /\ reqs = [r \in RequestIds |-> Idle]
    /\ ledger = [NoLedger EXCEPT !.rates = [a \in ActivityIds |-> LoggedActivities[a].rate]]
    /\ families = JoinedFamilies

NextLogs ==
    \/ \E uid \in Users, activity_id \in ActivityIds, units \in UnitChoices :
           CreateLog(uid, activity_id, units, NoFaults)
    \/ \E uid \in Parents, log_id \in LogIds, status_value \in Statuses :
           VerifyLog(uid, log_id, status_value, NoFaults)
    \/ \E uid \in Parents, activity_id \in ActivityIds : DeleteActivity(uid, activity_id)
    \/ Tick(TicksPerDay, MaxStamp)

SpecLogs == InitLogs /\ [][NextLogs]_vars

GetTodayEarnings(uid, user_id, fault) ==
    /\ lastCall' = [op |-> "get_today_earnings", user |-> user_id, caller |-> uid,
                    arg |-> [fault |-> fault], at |-> now,
                    result |-> get_today_earnings(Db, uid, user_id, now, fault)]
    /\ UNCHANGED <<now, stats, badges, activities, logs, awarded, users, reqs, ledger, families>>

GetWeeklyEarnings(uid, user_id, fault) ==
    /\ lastCall' = [op |-> "get_weekly_earnings", user |-> user_id, caller |-> uid,
                    arg |-> [fault |-> fault], at |-> now,
                    result |-> get_weekly_earnings(Db, uid, user_id, now, fault)]
    /\ UNCHANGED <<now, stats, badges, activities, logs, awarded, users, reqs, ledger, families>>

(***************************************************************************)
(* SpecFaults: one child logs, a parent of the family verifies, the child  *)
(* asks for the earnings; in every request at most one store call of the   *)
(* gamification steps or of the earnings query raises.                     *)
(***************************************************************************)
\* the faults that differ in what they leave behind: a counter method leaves
\* the document as it was whichever of its calls raises
MethodFaults == {"get", "set", "update"}
CounterFaults == {"get"}
CheckFaults == Faults \ {"none"}

\* the plans of create_log: at most one of its four steps meets a fault
CreatePlans ==
    {NoFaults}
    \cup {FaultPlan(f, "none", "none", "none", "none") : f \in MethodFaults}
    \cup {FaultPlan("none", f, "none", "none", "none") : f \in MethodFaults}
    \cup {FaultPlan("none", "none", f, "none", "none") : f \in CounterFaults}
    \cup {FaultPlan("none", "none", "none", "none", f) : f \in CheckFaults}

\* the plans of verify_log: at most one of its three steps meets a fault
VerifyPlans ==
    {NoFaults}
    \cup {FaultPlan(f, "none", "none", "none", "none") : f \in MethodFaults}
    \cup {FaultPlan("none", "none", "none", f, "none") : f \in CounterFaults}
    \cup {FaultPlan("none", "none", "none", "none", f) : f \in CheckFaults}

FaultyActivities == {"act1"}
FaultyUnits == {3}

NextFaults ==
    \/ \E activity_id \in FaultyActivities, units \in FaultyUnits, faults \in CreatePlans :
           CreateLog(Player, activity_id, units, faults)
    \/ \E log_id \in LogIds, status_value \in Statuses, faults \in VerifyPlans :
           VerifyLog("parent1", log_id, status_value, faults)
    \/ \E fault \in EarningsFaults : GetTodayEarnings(Player, Player, fault)
    \/ \E fault \in EarningsFaults : GetWeeklyEarnings(Player, Player, fault)
    \/ Tick(TicksPerDay, MaxStamp)

SpecFaults == InitLogs /\ [][NextFaults]_vars

(***************************************************************************)
(* Requests in flight.  verify_log reads the log and tests it, and writes  *)
(* later; award_xp reads the stats document, and writes later; between the *)
(* two steps of a request another request may take its own.                *)
(***************************************************************************)
Done(op, user, raced, stale) == [pc |-> "done", op |-> op, user |-> user, raced |-> raced, stale |-> stale]

VerifyLogBegin(r, uid, log_id, status_value) ==
    /\ reqs[r] = Idle
    /\ \E code \in {verify_log_check(Db, uid, log_id, status_value)} :
           /\ reqs' = [reqs EXCEPT ![r] =
                          IF code = 200
                          THEN [pc |-> "verify_log:write", uid |-> uid, log_id |-> log_id,
                                status |-> status_value]
                          ELSE Done("verify_log", OwnerOf(log_id), FALSE, FALSE)]
           /\ lastCall' = [op |-> "verify_log:check", user |-> OwnerOf(log_id),
                           caller |-> uid,
                           arg |-> [log_id |-> log_id, status |-> status_value],
                           at |-> now, result |-> Response(code, NoDoc)]
    /\ UNCHANGED <<now, stats, badges, activities, logs, awarded, users, ledger, families>>

VerifyLogWrite(r) ==
    /\ reqs[r].pc = "verify_log:write"
    /\ \E res \in {verify_log_commit(Db, reqs[r].uid, reqs[r].log_id, reqs[r].status,
                                     now, NoFaults)} :
           /\ stats' = res.db.stats
           /\ badges' = res.db.badges
           /\ logs' = res.db.logs
           /\ awarded' = Awarded(OwnerOf(reqs[r].log_id), res.awards)
           /\ lastCall' = Request("verify_log", reqs[r].uid, OwnerOf(reqs[r].log_id),
                                  [log_id |-> reqs[r].log_id, status |-> reqs[r].status,
                                   preLog |-> logs[reqs[r].log_id]], res)
           /\ ledger' = Verified(reqs[r].log_id, reqs[r].status, res)
    /\ reqs' = [reqs EXCEPT ![r] = Done("verify_log", OwnerOf(reqs[r].log_id), FALSE, FALSE)]
    /\ UNCHANGED <<now, activities, users, families>>

AwardXpRead(r, user_id, xp_amount) ==
    /\ reqs[r] = Idle
    /\ reqs' = [reqs EXCEPT ![r] = [pc |-> "award_xp:write", user |-> user_id,
                                    xp_amount |-> xp_amount, stats_doc |-> stats[user_id]]]
    /\ lastCall' = [op |-> "award_xp:read", user |-> user_id, arg |-> xp_amount,
                    at |-> now, pre |-> stats[user_id], result |-> None]
    /\ UNCHANGED <<now, stats, badges, activities, logs, awarded, users, ledger, families>>

\* another award_xp call for the user has read the document and not yet
\* written, or wrote while this call was between its read and its write
Overlapping(r) ==
    \E other \in RequestIds \ {r} :
        \/ /\ reqs[other].pc = "award_xp:write"
           /\ reqs[other].user = reqs[r].user
        \/ /\ reqs[other].pc = "done"
           /\ reqs[other].op = "award_xp"
           /\ reqs[other].user = reqs[r].user
           /\ reqs[other].raced

\* the stored totalExperience is no longer the one this call read
Stale(r) ==
    TotalXP(reqs[r].user) #
        (IF reqs[r].stats_doc = NoDoc THEN 0 ELSE reqs[r].stats_doc.totalExperience)

AwardXpWrite(r) ==
    /\ reqs[r].pc = "award_xp:write"
    /\ stats' = award_xp_write(stats, reqs[r].user, reqs[r].xp_amount, reqs[r].stats_doc)
    /\ awarded' = Awarded(reqs[r].user, <<reqs[r].xp_amount>>)
    /\ lastCall' = [op |-> "award_xp", user |-> reqs[r].user, arg |-> reqs[r].xp_amount,
                    at |-> now, pre |-> stats[reqs[r].user], result |-> None]
    /\ reqs' = [reqs EXCEPT ![r] = Done("award_xp", reqs[r].user, Overlapping(r), Stale(r))]
    /\ UNCHANGED <<now, badges, activities, logs, users, ledger, families>>

(***************************************************************************)
(* SpecRace: two requests, each a verify_log or an award_xp, their store   *)
(* accesses interleaved, and create_log to have logs to verify.            *)
(***************************************************************************)
RaceAmounts == {5, 100}

NextRace ==
    \/ CreateLog("child1", "act1", 3, NoFaults)
    \/ \E r \in RequestIds, uid \in Parents, log_id \in LogIds, status_value \in Statuses :
           VerifyLogBegin(r, uid, log_id, status_value)
    \/ \E r \in RequestIds : VerifyLogWrite(r)
    \/ \E r \in RequestIds, user_id \in Users, xp_amount \in RaceAmounts :
           AwardXpRead(r, user_id, xp_amount)
    \/ \E r \in RequestIds : AwardXpWrite(r)

SpecRace == InitLogs /\ [][NextRace]_vars

(***************************************************************************)
(* SpecCascade: create_log as its two parts, the read of the activity and  *)
(* the write of the log, with delete_activity requests in between.         *)
(***************************************************************************)
CreateLogBegin(r, uid, activity_id, units) ==
    /\ reqs[r] = Idle
    /\ \E code \in {create_log_check(Db, uid, activity_id, units)} :
           /\ reqs' = [reqs EXCEPT ![r] =
                          IF code = 200
                          THEN [pc |-> "create_log:write", uid |-> uid,
                                activity_id |-> activity_id,
                                family_id |-> activities[activity_id].familyId,
                                units |-> units]
                          ELSE Done("create_log", uid, FALSE, FALSE)]
           /\ lastCall' = [op |-> "create_log:check", user |-> uid, caller |-> uid,
                           arg |-> [activity_id |-> activity_id, units |-> units],
                           at |-> now, result |-> Response(code, NoDoc)]
    /\ UNCHANGED <<now, stats, badges, activities, logs, awarded, users, ledger, families>>

CreateLogWrite(r) ==
    /\ reqs[r].pc = "create_log:write"
    /\ LogIds \ ledger.issued # {}
    /\ \E res \in {create_log_commit(Db, reqs[r].uid, reqs[r].activity_id,
                                     reqs[r].family_id, reqs[r].units, NewLogId, now,
                                     NoFaults)} :
           /\ stats' = res.db.stats
           /\ badges' = res.db.badges
           /\ logs' = res.db.logs
           /\ awarded' = Awarded(reqs[r].uid, res.awards)
           /\ lastCall' = Request("create_log", reqs[r].uid, reqs[r].uid,
                                  [activity_id |-> reqs[r].activity_id,
                                   units |-> reqs[r].units], res)
           /\ ledger' = [ledger EXCEPT !.issued = @ \cup {NewLogId},
                                       !.created[reqs[r].uid] = @ + 1]
    /\ reqs' = [reqs EXCEPT ![r] = Done("create_log", reqs[r].uid, FALSE, FALSE)]
    /\ UNCHANGED <<now, activities, users, families>>

NextCascade ==
    \/ \E r \in RequestIds, uid \in Users, activity_id \in ActivityIds, units \in UnitChoices :
           CreateLogBegin(r, uid, activity_id, units)
    \/ \E r \in RequestIds : CreateLogWrite(r)
    \/ \E uid \in Parents, activity_id \in ActivityIds : DeleteActivity(uid, activity_id)

SpecCascade == InitLogs /\ [][NextCascade]_vars

(***************************************************************************)
(* SpecMethodFaults: the methods of the gamification service called one at *)
(* a time, any one store call of a method able to fail.                    *)
(***************************************************************************)
CallTry(op, u, arg, fault, failed, result, awards) ==
    [op |-> op, user |-> u, arg |-> arg, at |-> now, pre |-> stats[u],
     preBadges |-> badges[u], result |-> result, awards |-> awards,
     fault |-> fault, failed |-> failed]

AwardXpTry(u, xp_amount, cap, fault) ==
    /\ awarded[u] + xp_amount <= cap
    /\ \E r \in {award_xp_try(stats, u, xp_amount, fault)} :
           /\ stats' = r.stats
           /\ lastCall' = CallTry("award_xp", u, xp_amount, fault,
                                  award_xp_fault_reached(stats, u, fault),
                                  r.result, r.awards)
           /\ awarded' = [awarded EXCEPT ![u] = @ + SumSeq(r.awards)]
    /\ UNCHANGED <<now, badges, activities, logs, users, reqs, ledger, families>>

UpdateStreakTry(u, fault) ==
    /\ \E r \in {update_streak_try(stats, u, now, fault)} :
           /\ stats' = r.stats
           /\ lastCall' = CallTry("update_streak", u, None, fault,
                                  update_streak_fault_reached(stats, u, now, fault),
                                  r.result, r.awards)
           /\ awarded' = [awarded EXCEPT ![u] = @ + SumSeq(r.awards)]
    /\ UNCHANGED <<now, badges, activities, logs, users, reqs, ledger, families>>

CheckAndAwardBadgesTry(u, fault) ==
    /\ \E r \in {check_and_award_badges_try(stats, badges, u, now, fault)} :
           /\ stats' = r.stats
           /\ badges' = r.badges
           /\ lastCall' = CallTry("check_and_award_badges", u, None, fault, r.failed,
                                  r.result, <<>>)
    /\ UNCHANGED <<now, activities, logs, awarded, users, reqs, ledger, families>>

NextMethodFaults ==
    \/ \E xp_amount \in XpAmounts, fault \in MethodFaults \cup {"none"} :
           AwardXpTry(Player, xp_amount, MaxTotalXP, fault)
    \/ \E fault \in MethodFaults \cup {"none"} : UpdateStreakTry(Player, fault)
    \/ \E fault \in Faults : CheckAndAwardBadgesTry(Player, fault)
    \/ IncrementActivityCount(Player, MaxActivities)
    \/ Tick(TicksPerDay, MaxStamp)

SpecMethodFaults == Init /\ [][NextMethodFaults]_vars

(***************************************************************************)
(* SpecFamilies: accounts without a family create and join families,       *)
(* requests serialized.                                                    *)
(***************************************************************************)
InitFamilies ==
    /\ now = 0
    /\ stats = [u \in Users |-> NoDoc]
    /\ badges = [u \in Users |-> NoDoc]
    /\ activities = [a \in ActivityIds |-> NoDoc]
    /\ logs = [l \in LogIds |-> NoDoc]
    /\ awarded = [u \in Users |-> 0]
    /\ lastCall = NoCall
    /\ users = NewProfiles
    /\ reqs = [r \in RequestIds |-> Idle]
    /\ ledger = NoLedger
    /\ families = [f \in Families |-> NoDoc]

\* the id the store hands out for the next family document
NewFamilyId ==
    IF \E f \in Families : families[f] = NoDoc
    THEN CHOOSE f \in Families : families[f] = NoDoc
    ELSE None

FamilyCall(op, uid, arg, r) ==
    [op |-> op, user |-> uid, caller |-> uid, arg |-> arg, at |-> now,
     result |-> [status |-> r.status, family_id |-> r.family_id]]

CreateFamily(uid) ==
    /\ \E invite_code \in (IF ensure_unique_invite_code(families) = {}
                           THEN {None} ELSE ensure_unique_invite_code(families)) :
       \E r \in {create_family(users, families, uid, NewFamilyId, invite_code, now)} :
           /\ users' = r.users
           /\ families' = r.families
           /\ lastCall' = FamilyCall("create_family", uid, [invite_code |-> invite_code], r)
    /\ UNCHANGED <<now, stats, badges, activities, logs, awarded, reqs, ledger>>

JoinFamily(uid, code) ==
    /\ \E r \in {join_family(users, families, uid, code)} :
           /\ users' = r.users
           /\ families' = r.families
           /\ lastCall' = FamilyCall("join_family", uid, [invite_code |-> code], r)
    /\ UNCHANGED <<now, stats, badges, activities, logs, awarded, reqs, ledger>>

NextFamilies ==
    \/ \E uid \in Accounts : CreateFamily(uid)
    \/ \E uid \in Accounts, code \in InviteInputs : JoinFamily(uid, code)

SpecFamilies == InitFamilies /\ [][NextFamilies]_vars

(***************************************************************************)
(* Properties of the XP ledger (checked under SpecXP).                     *)
(***************************************************************************)
HasStats(u) == stats[u] # NoDoc

\* the level and balance award_xp starts from: those of the stored document,
\* or level 1 and 0 XP for a first-time user
LevelBefore(call) == IF call.pre = NoDoc THEN 1 ELSE call.pre.level
BalanceBefore(call) == IF call.pre = NoDoc THEN 0 ELSE call.pre.experiencePoints

\* sum of the thresholds of the levels lo .. hi-1
RECURSIVE ThresholdsCrossed(_, _)
ThresholdsCrossed(lo, hi) ==
    IF lo >= hi THEN 0
    ELSE calculate_xp_to_next_level(lo) + ThresholdsCrossed(lo + 1, hi)

\* C1: after every award_xp call the stored balance is within the level:
\* 0 <= experiencePoints < floor(100 * level^1.5).  For integers,
\* x < floor(sqrt(n)) is (x+1)^2 <= n.
C1_BalanceBelowThreshold ==
    \A u \in Users :
        HasStats(u) =>
            /\ stats[u].experiencePoints >= 0
            /\ (stats[u].experiencePoints + 1) * (stats[u].experiencePoints + 1)
                   <= 10000 * stats[u].level * stats[u].level * stats[u].level

\* an award that levelled the user up and left a positive balance
C1_Witness ==
    /\ lastCall.op = "award_xp"
    /\ lastCall.pre # NoDoc
    /\ lastCall.result.level_up
    /\ stats[lastCall.user].experiencePoints > 0

\* C2: the stored totalExperience is the sum of all amounts passed to
\* award_xp, and level never decreases from one state to the next.
C2_TotalIsSumOfAwards ==
    /\ [](\A u \in Users : TotalXP(u) = awarded[u])
    /\ [][\A u \in Users :
            HasStats(u) => /\ stats'[u] # NoDoc
                           /\ stats'[u].level >= stats[u].level]_vars

\* the third award of a sequence, after a level-up
C2_Witness ==
    /\ lastCall.op = "award_xp"
    /\ lastCall.pre # NoDoc
    /\ lastCall.pre.totalExperience = 105
    /\ lastCall.arg = 282
    /\ stats[lastCall.user].level = 3

\* C3: one award_xp call raises the level once per threshold crossed and
\* leaves the remainder as balance; 400 XP from level 1 with 0 XP gives
\* level 3 with 18 XP, level_up reported with old_level 1.
C3_CascadeInOneCall ==
    lastCall.op = "award_xp" =>
        LET s == stats[lastCall.user]
        IN  /\ BalanceBefore(lastCall) + lastCall.arg =
                   s.experiencePoints + ThresholdsCrossed(LevelBefore(lastCall), s.level)
            /\ s.experiencePoints < calculate_xp_to_next_level(s.level)
            /\ lastCall.result.level_up <=> s.level > LevelBefore(lastCall)
            /\ (/\ LevelBefore(lastCall) = 1
                /\ BalanceBefore(lastCall) = 0
                /\ lastCall.arg = 400)
               => /\ s.level = 3
                  /\ s.experiencePoints = 18
                  /\ lastCall.result.level_up
                  /\ lastCall.result.old_level = 1
                  /\ lastCall.result.new_level = 3

\* 400 XP awarded to a user at level 1 with 0 XP
C3_Witness ==
    /\ lastCall.op = "award_xp"
    /\ lastCall.arg = 400
    /\ LevelBefore(lastCall) = 1
    /\ BalanceBefore(lastCall) = 0
    /\ stats[lastCall.user].level = 3

(***************************************************************************)
(* Properties of the streak (checked under SpecStreak).                    *)
(***************************************************************************)
\* update_streak just ran for a user who had a document with a date in it
StreakCallOnDate ==
    /\ lastCall.op = "update_streak"
    /\ lastCall.pre # NoDoc
    /\ lastCall.pre.lastActivityDate # NoDate

\* ticks elapsed between the stored lastActivityDate and the call
Elapsed(call) == call.at - instant(call.pre.lastActivityDate)

ReachedMilestone(call) ==
    /\ call.pre # NoDoc
    /\ stats[call.user].currentStreak # call.pre.currentStreak
    /\ stats[call.user].currentStreak > 0
    /\ stats[call.user].currentStreak % 7 = 0

\* the XP fields of the user's document are those before the call (level 1
\* and no XP when the call created the document)
XPUntouched(call) ==
    /\ stats[call.user].experiencePoints = BalanceBefore(call)
    /\ stats[call.user].level = LevelBefore(call)
    /\ stats[call.user].totalExperience =
           (IF call.pre = NoDoc THEN 0 ELSE call.pre.totalExperience)

\* C6: update_streak grants a bonus exactly when the call changes the streak
\* to a positive multiple of 7; the bonus is currentStreak * 10, added by one
\* award_xp call; in every other case the bonus is 0 and XP is unchanged.
C6_MilestoneBonus ==
    lastCall.op = "update_streak" =>
        LET s == stats[lastCall.user]
        IN  IF ReachedMilestone(lastCall)
            THEN /\ lastCall.result.streak_bonus_xp = s.currentStreak * 10
                 /\ lastCall.awards = <<s.currentStreak * 10>>
                 /\ s.totalExperience = lastCall.pre.totalExperience + s.currentStreak * 10
                 /\ s.currentStreak = 7 => lastCall.result.streak_bonus_xp = 70
                 /\ s.currentStreak = 14 => lastCall.result.streak_bonus_xp = 140
            ELSE /\ lastCall.result.streak_bonus_xp = 0
                 /\ lastCall.awards = <<>>
                 /\ XPUntouched(lastCall)

\* the streak reaches 14 and 140 XP are granted
C6_Witness ==
    /\ lastCall.op = "update_streak"
    /\ ReachedMilestone(lastCall)
    /\ stats[lastCall.user].currentStreak = 14
    /\ lastCall.result.streak_bonus_xp = 140

\* a repeat call the same day while the streak sits at 7
C6_WitnessRepeat ==
    /\ lastCall.op = "update_streak"
    /\ lastCall.pre # NoDoc
    /\ lastCall.pre.currentStreak = 7
    /\ stats[lastCall.user].currentStreak = 7
    /\ lastCall.result.streak_bonus_xp = 0

(***************************************************************************)
(* Properties of the badges (checked under Spec).                          *)
(***************************************************************************)
UnlockMap(u) == IF badges[u] = NoDoc THEN EmptyMap ELSE badges[u].badges
UnlockMapBefore(call) == IF call.preBadges = NoDoc THEN EmptyMap ELSE call.preBadges.badges

\* C7: a badge id in a user's unlock map stays there in every later state,
\* with its record, and no later check_and_award_badges call returns it again.
C7_BadgePermanence ==
    /\ [][\A u \in Users :
            \A badge_id \in DOMAIN UnlockMap(u) :
                /\ badges'[u] # NoDoc
                /\ badge_id \in DOMAIN badges'[u].badges
                /\ badges'[u].badges[badge_id] = UnlockMap(u)[badge_id]]_vars
    /\ [](lastCall.op = "check_and_award_badges" =>
             lastCall.result \cap DOMAIN UnlockMapBefore(lastCall) = {})

\* a badge check after the streak fell back to 1, with on_fire unlocked before
C7_Witness ==
    /\ lastCall.op = "check_and_award_badges"
    /\ "on_fire" \in DOMAIN UnlockMapBefore(lastCall)
    /\ "on_fire" \in DOMAIN UnlockMap(lastCall.user)
    /\ stats[lastCall.user].currentStreak = 1

\* C8: a user's badgesEarned is the number of badge ids in the user's unlock
\* map, 0 when there is no unlock document; there is no unlock document
\* without a stats document.
C8_BadgesEarnedIsMapSize ==
    \A u \in Users :
        IF HasStats(u)
        THEN stats[u].badgesEarned = Cardinality(DOMAIN UnlockMap(u))
        ELSE badges[u] = NoDoc

\* a second badge check that adds to a map that already holds a badge
C8_Witness ==
    /\ lastCall.op = "check_and_award_badges"
    /\ DOMAIN UnlockMapBefore(lastCall) # {}
    /\ lastCall.result # {}
    /\ stats[lastCall.user].badgesEarned >= 3

(***************************************************************************)
(* Properties of the earnings query (checked under SpecEarnings).          *)
(***************************************************************************)
EarningsCall == lastCall.op = "calculate_earnings_for_user"

\* the log documents of the queried user and family stamped in the window
Returned(call) ==
    {id \in LogIds :
        /\ logs[id] # NoDoc
        /\ logs[id].userId = call.user
        /\ logs[id].familyId = call.arg.family_id
        /\ call.arg.start_time <= logs[id].timestamp
        /\ logs[id].timestamp <= call.arg.end_time}

\* units * rate of a stored log, the rate read from the log's activity
Value(id) == logs[id].units * activities[logs[id].activityId].rate

RECURSIVE SumOfValues(_)
SumOfValues(ids) ==
    IF ids = {} THEN 0
    ELSE LET id == CHOOSE x \in ids : TRUE IN Value(id) + SumOfValues(ids \ {id})

WithStatus(ids, v) == {id \in ids : logs[id].verificationStatus = v}

\* C9: pendingTotal is the sum of units * rate over the returned logs with
\* status pending, verifiedTotal the sum over those with status approved;
\* rejected logs add to neither.
C9_EarningsPartition ==
    EarningsCall =>
        /\ lastCall.result.pending_earnings =
               SumOfValues(WithStatus(Returned(lastCall), "pending"))
        /\ lastCall.result.verified_earnings =
               SumOfValues(WithStatus(Returned(lastCall), "approved"))
        /\ lastCall.result.pending_earnings + lastCall.result.verified_earnings
               + SumOfValues(WithStatus(Returned(lastCall), "rejected"))
               = SumOfValues(Returned(lastCall))

\* an approved and a rejected log in the window: only the first is counted
C9_Witness ==
    /\ EarningsCall
    /\ WithStatus(Returned(lastCall), "approved") # {}
    /\ WithStatus(Returned(lastCall), "rejected") # {}
    /\ lastCall.result.verified_earnings > 0
    /\ lastCall.result.pending_earnings = 0

\* the result of the same query on the store without the log id
WithoutLog(call, id) ==
    calculate_earnings_for_user([logs EXCEPT ![id] = NoDoc], activities, call.user,
                                call.arg.family_id, call.arg.start_time,
                                call.arg.end_time)

\* C10: a pending or approved log of the queried user and family is counted
\* (the result differs from that of the store without it) if and only if
\* start <= timestamp <= end.
C10_WindowInclusive ==
    EarningsCall =>
        \A id \in LogIds :
            (/\ logs[id] # NoDoc
             /\ logs[id].userId = lastCall.user
             /\ logs[id].familyId = lastCall.arg.family_id
             /\ logs[id].verificationStatus # "rejected")
            => ((WithoutLog(lastCall, id) # lastCall.result)
                <=> (/\ lastCall.arg.start_time <= logs[id].timestamp
                     /\ logs[id].timestamp <= lastCall.arg.end_time))

\* one log stamped exactly at the end of the window and counted, the other
\* one tick before its start and not counted
C10_Witness ==
    /\ EarningsCall
    /\ lastCall.arg.start_time < lastCall.arg.end_time
    /\ \E id, other \in LogIds :
        /\ logs[id] # NoDoc /\ logs[other] # NoDoc
        /\ logs[id].userId = lastCall.user /\ logs[other].userId = lastCall.user
        /\ logs[id].familyId = lastCall.arg.family_id
        /\ logs[other].familyId = lastCall.arg.family_id
        /\ logs[id].verificationStatus = "approved"
        /\ logs[other].verificationStatus = "approved"
        /\ logs[id].timestamp = lastCall.arg.end_time
        /\ logs[other].timestamp = lastCall.arg.start_time - 1
        /\ lastCall.result.verified_earnings = Value(id)

(***************************************************************************)
(* Properties of the log endpoints (checked under SpecLogs).               *)
(***************************************************************************)
Created == lastCall.op = "create_log" /\ lastCall.result.status = 201

StepNames(steps) == [i \in DOMAIN steps |-> steps[i].step]

\* the badges of the catalog of one requirement type whose value is at most v
BadgesUpTo(requirement_type, v) ==
    {badge_id \in DOMAIN BADGES :
        /\ BADGES[badge_id].requirement_type = requirement_type
        /\ BADGES[badge_id].requirement_value <= v}

\* C11: create_log runs award_xp(5), update_streak, increment_activity_count,
\* check_and_award_badges in this order; for a user without a stats document
\* one event leaves experiencePoints 5, totalExperience 5, level 1,
\* currentStreak 1, totalActivitiesLogged 1 and unlocks first_steps, the
\* badge check reading the counter the step before it incremented.
C11_CreateLogOrder ==
    Created =>
        LET s == stats[lastCall.user]
        IN  /\ StepNames(lastCall.steps) =
                   <<"award_xp", "update_streak", "increment_activity_count",
                     "check_and_award_badges">>
            /\ Head(lastCall.awards) = 5
            /\ BadgesUpTo("activity_count", s.totalActivitiesLogged)
                   \subseteq DOMAIN UnlockMap(lastCall.user)
            /\ lastCall.pre = NoDoc =>
                   /\ s.experiencePoints = 5
                   /\ s.totalExperience = 5
                   /\ s.level = 1
                   /\ s.currentStreak = 1
                   /\ s.totalActivitiesLogged = 1
                   /\ "first_steps" \in lastCall.new_badges
                   /\ "first_steps" \in DOMAIN UnlockMap(lastCall.user)

\* the first log of a user, on the second day of the run
C11_Witness ==
    /\ Created
    /\ lastCall.pre = NoDoc
    /\ lastCall.at > 0
    /\ stats[lastCall.user].totalActivitiesLogged = 1
    /\ "first_steps" \in lastCall.new_badges

Approved ==
    /\ lastCall.op = "verify_log"
    /\ lastCall.result.status = 200
    /\ lastCall.arg.status = "approved"

\* the rate of the activity of the log verify_log was asked about, in cents
RateOf(call) == ledger.rates[call.arg.preLog.activityId]

\* C12: the approval of a pending log of u units at rate r awards
\* floor(r * u * 10) XP to the owner of the log, then adds r * u to
\* totalEarnings, then checks the badges, so that a total_earnings badge
\* whose threshold this approval reaches is unlocked by it.  With r in
\* cents, floor(r * u * 10) is (r * u) \div 10.
C12_ApprovalRewards ==
    Approved =>
        LET s == stats[lastCall.user]
            units == lastCall.arg.preLog.units
        IN  /\ StepNames(lastCall.steps) =
                   <<"award_xp", "add_to_total_earnings", "check_and_award_badges">>
            /\ lastCall.awards = <<(RateOf(lastCall) * units) \div 10>>
            /\ s.totalExperience =
                   lastCall.pre.totalExperience + (RateOf(lastCall) * units) \div 10
            /\ s.totalEarnings = lastCall.pre.totalEarnings + RateOf(lastCall) * units
            /\ \A badge_id \in DOMAIN BADGES :
                   (/\ BADGES[badge_id].requirement_type = "total_earnings"
                    /\ BADGES[badge_id].requirement_value * CentsPerDollar
                           <= s.totalEarnings
                    /\ BADGES[badge_id].requirement_value * CentsPerDollar
                           > lastCall.pre.totalEarnings)
                   => badge_id \in lastCall.new_badges

\* the approval of 3 units at 0.70 a unit: 20 XP are awarded for 2.10 earned
C12_Witness ==
    /\ Approved
    /\ RateOf(lastCall) = 70
    /\ lastCall.arg.preLog.units = 3
    /\ lastCall.awards = <<20>>
    /\ stats[lastCall.user].totalEarnings = lastCall.pre.totalEarnings + 210
    /\ "first_dollar" \in lastCall.new_badges

\* the log is stored with a verdict on it
Decided(id) == logs[id] # NoDoc /\ logs[id].verificationStatus # "pending"

C17_CountersMatchLedger ==
    /\ [](\A u \in Users :
            /\ (IF HasStats(u) THEN stats[u].totalActivitiesLogged ELSE 0)
                   = ledger.created[u]
            /\ (IF HasStats(u) THEN stats[u].totalEarnings ELSE 0) = ledger.approved[u])
    /\ [][\A u \in Users :
            HasStats(u) =>
                /\ stats'[u] # NoDoc
                /\ stats'[u].totalActivitiesLogged >= stats[u].totalActivitiesLogged
                /\ stats'[u].totalEarnings >= stats[u].totalEarnings]_vars

\* two logs of one user approved and then removed with their activities
C17_Witness ==
    /\ lastCall.op = "delete_activity"
    /\ lastCall.result.deleted >= 1
    /\ \A id \in LogIds : logs[id] = NoDoc
    /\ \E u \in Users :
        /\ HasStats(u)
        /\ stats[u].totalActivitiesLogged = 2
        /\ stats[u].totalEarnings = 150 + 210

(***************************************************************************)
(* Properties of the badge catalog and of the badge check without a stats  *)
(* document (checked under Spec).                                          *)
(***************************************************************************)
BackedTypes == {"activity_count", "total_earnings", "current_streak"}

\* the badges whose requirement type no stat of the document stands behind
UnbackedBadges ==
    {badge_id \in DOMAIN BADGES : BADGES[badge_id].requirement_type \notin BackedTypes}

\* stats documents with every number at one of the values of range
StatsOver(range) ==
    [userId : {Player}, level : range, experiencePoints : range,
     totalExperience : range, currentStreak : range, longestStreak : range,
     lastActivityDate : {NoDate}, totalActivitiesLogged : range,
     totalEarnings : range, badgesEarned : range]

\* no stats document, however large its numbers, earns an unbacked badge
UnbackedNeverEarned ==
    \A s \in StatsOver({0, 100000}) :
        newly_earned_badges(s, EmptyMap) \cap UnbackedBadges = {}

\* C18: no badge of type pages_read, goals_completed or special, nor of any
\* type but activity_count, total_earnings and current_streak, is in any
\* unlock map or in the result of any badge check, whatever the stats.
C18_UnbackedNeverUnlock ==
    /\ \A u \in Users : DOMAIN UnlockMap(u) \cap UnbackedBadges = {}
    /\ lastCall.op = "check_and_award_badges" => lastCall.result \cap UnbackedBadges = {}
    /\ UnbackedNeverEarned

\* a check that unlocks first_steps and leaves the badges of requirement
\* value 1 and no backing stat locked
C18_Witness ==
    /\ lastCall.op = "check_and_award_badges"
    /\ "first_steps" \in lastCall.result
    /\ {"early_bird", "goal_crusher"} \cap DOMAIN UnlockMap(lastCall.user) = {}
    /\ stats[lastCall.user].totalActivitiesLogged >= 1

\* C19: check_and_award_badges for a user without a stats document returns
\* the empty list and writes nothing: no stats document, no unlock document.
C19_NoStatsNoWrite ==
    [][(/\ lastCall'.op = "check_and_award_badges"
        /\ stats[lastCall'.user] = NoDoc)
       => /\ lastCall'.result = {}
          /\ stats' = stats
          /\ badges' = badges
          /\ UNCHANGED <<activities, logs, users>>]_vars

\* the check ran on the second day for a user who still has no document
C19_Witness ==
    /\ lastCall.op = "check_and_award_badges"
    /\ lastCall.at > 0
    /\ lastCall.pre = NoDoc
    /\ lastCall.result = {}
    /\ stats[lastCall.user] = NoDoc
    /\ badges[lastCall.user] = NoDoc

(***************************************************************************)
(* Properties under store failures (checked under SpecFaults).             *)
(***************************************************************************)
Failed(call, i) == call.steps[i].failed

EarningsBefore(call) == IF call.pre = NoDoc THEN 0 ELSE call.pre.totalEarnings
CountBefore(call) == IF call.pre = NoDoc THEN 0 ELSE call.pre.totalActivitiesLogged

\* C13: in create_log, and in verify_log with status approved, a store
\* failure inside one gamification step stops neither the steps after it nor
\* the request: all steps are attempted in their order, those that meet no
\* failure take effect, and the response is the normal one, carrying the
\* log as it is stored.
C13_FailureIsolation ==
    /\ Created =>
           LET u == lastCall.user
           IN  /\ StepNames(lastCall.steps) =
                      <<"award_xp", "update_streak", "increment_activity_count",
                        "check_and_award_badges">>
               /\ lastCall.result.log = logs[lastCall.result.log.id]
               /\ ~Failed(lastCall, 2) => HasStats(u) /\ stats[u].currentStreak >= 1
               /\ ~Failed(lastCall, 3) =>
                      /\ HasStats(u)
                      /\ stats[u].totalActivitiesLogged >= CountBefore(lastCall) + 1
               /\ (~Failed(lastCall, 4) /\ HasStats(u)) =>
                      BadgesUpTo("activity_count", stats[u].totalActivitiesLogged)
                          \subseteq DOMAIN UnlockMap(u)
    /\ Approved =>
           LET u == lastCall.user
           IN  /\ StepNames(lastCall.steps) =
                      <<"award_xp", "add_to_total_earnings", "check_and_award_badges">>
               /\ lastCall.result.log = logs[lastCall.arg.log_id]
               /\ lastCall.result.log.verificationStatus = "approved"
               /\ ~Failed(lastCall, 2) =>
                      /\ HasStats(u)
                      /\ stats[u].totalEarnings = EarningsBefore(lastCall) + lastCall.earnings
               /\ (~Failed(lastCall, 3) /\ HasStats(u)) =>
                      \A badge_id \in DOMAIN BADGES :
                          (/\ BADGES[badge_id].requirement_type = "total_earnings"
                           /\ BADGES[badge_id].requirement_value * CentsPerDollar
                                  <= stats[u].totalEarnings)
                          => badge_id \in DOMAIN UnlockMap(u)

\* the first log of a user: award_xp fails, the three steps after it go
\* through and first_steps is unlocked
C13_Witness ==
    /\ Created
    /\ lastCall.pre = NoDoc
    /\ Failed(lastCall, 1)
    /\ ~Failed(lastCall, 2) /\ ~Failed(lastCall, 3) /\ ~Failed(lastCall, 4)
    /\ "first_steps" \in lastCall.new_badges

\* an approval whose award_xp fails: the earnings are added all the same
C13_WitnessApproval ==
    /\ Approved
    /\ Failed(lastCall, 1)
    /\ ~Failed(lastCall, 2)
    /\ stats[lastCall.user].totalEarnings = EarningsBefore(lastCall) + 450

EarningsRequest == lastCall.op \in {"get_today_earnings", "get_weekly_earnings"}

\* C20: calculate_earnings_for_user, calculate_today_earnings and
\* calculate_weekly_earnings raise when a store call of theirs fails, and
\* return no amounts; the earnings endpoints answer such a request with an
\* error status (500) and no amounts, never with zero earnings.
C20_EarningsFailurePropagates ==
    /\ \A fault \in {"activities", "logs"}, u \in Users :
           /\ calculate_earnings_for_user_try(logs, activities, u, users[u].familyId,
                                              0, now, fault) = Raised
           /\ calculate_today_earnings(logs, activities, u, users[u].familyId, now,
                                       fault) = Raised
           /\ calculate_weekly_earnings(logs, activities, u, users[u].familyId, now,
                                        fault) = Raised
    /\ (EarningsRequest /\ lastCall.arg.fault # "none") =>
           /\ lastCall.result.status = 500
           /\ lastCall.result.pending = None
           /\ lastCall.result.verified = None

\* the logs stream fails while the store holds an approved log of today
C20_Witness ==
    /\ lastCall.op = "get_today_earnings"
    /\ lastCall.arg.fault = "logs"
    /\ lastCall.result.status = 500
    /\ \E id \in LogIds :
        /\ logs[id] # NoDoc
        /\ logs[id].userId = lastCall.user
        /\ logs[id].verificationStatus = "approved"
        /\ logs[id].timestamp >= start_of_day(lastCall.at)

(***************************************************************************)
(* Properties of interleaved requests (checked under SpecRace).            *)
(***************************************************************************)
\* C15: however two verify_log requests on one pending log interleave, at
\* most one of them writes the log's verdict and runs the approval rewards;
\* the log leaves pending once.
C15_VerifiedOnce ==
    \A id \in LogIds :
        /\ ledger.decided[id] <= 1
        /\ ledger.rewarded[id] <= 1

\* both requests approved the one log: its 4.50 are in totalEarnings twice
C15_Witness ==
    /\ ledger.decided["log1"] = 2
    /\ ledger.rewarded["log1"] = 2
    /\ ledger.created["child1"] = 1
    /\ stats["child1"].totalEarnings = 2 * Worth("log1")
    /\ \A r \in RequestIds : reqs[r].pc = "done"

\* the two award_xp calls are over, for one user, and overlapped
BothRaced ==
    /\ \A r \in RequestIds :
        /\ reqs[r].pc = "done"
        /\ reqs[r].op = "award_xp"
        /\ reqs[r].raced
    /\ \A r, other \in RequestIds : reqs[r].user = reqs[other].user

\* C16: award_xp is not atomic.  When two calls for one user both read the
\* stats document before either writes it, the stored totalExperience ends
\* below the sum of the amounts awarded: the update of the call that wrote
\* first is lost.  As long as every call wrote over the totalExperience it
\* had read, nothing is lost, and no interleaving stores more than was
\* awarded.
C16_LostUpdate ==
    /\ \A u \in Users : TotalXP(u) <= awarded[u]
    /\ BothRaced => \A r \in RequestIds : TotalXP(reqs[r].user) < awarded[reqs[r].user]
    /\ (\A r \in RequestIds : reqs[r].pc = "done" => ~reqs[r].stale)
       => \A u \in Users : TotalXP(u) = awarded[u]

\* 5 and 100 XP awarded to a user who had 5: both calls read 5, one stored
\* 10, the other 105, and 105 is what remains of the 110 awarded
C16_Witness ==
    /\ BothRaced
    /\ lastCall.op = "award_xp"
    /\ lastCall.arg = 100
    /\ lastCall.pre # NoDoc
    /\ lastCall.pre.totalExperience = 10
    /\ stats[lastCall.user].totalExperience = 105
    /\ awarded[lastCall.user] = 110

(***************************************************************************)
(* Properties of the service methods under store failures (checked under   *)
(* SpecMethodFaults).                                                      *)
(***************************************************************************)
\* the call just made is one of op in which a store call failed
FailedCall(op) ==
    /\ lastCall.op = op
    /\ "failed" \in DOMAIN lastCall
    /\ lastCall.failed

\* what a check_and_award_badges call without a store error can return: the
\* badges newly earned, none of them when nothing new qualifies
BadgeResults == SUBSET DOMAIN BADGES

\* C21 as stated: a store failure inside award_xp, update_streak or
\* check_and_award_badges is answered with an error-tagged result, one that
\* no call without a failure returns.
C21_ErrorTagged ==
    /\ FailedCall("award_xp") => "error" \in DOMAIN lastCall.result
    /\ FailedCall("update_streak") => "error" \in DOMAIN lastCall.result
    /\ FailedCall("check_and_award_badges") => lastCall.result \notin BadgeResults

\* C21 amended: none of the three raises; award_xp and update_streak answer
\* a store failure with the error-tagged result, check_and_award_badges
\* answers it with the empty list, which is also what a call without a
\* failure returns when no badge is newly earned.
C21_ErrorTaggedButBadges ==
    /\ FailedCall("award_xp") => lastCall.result = StoreError
    /\ FailedCall("update_streak") => lastCall.result = StoreError
    /\ FailedCall("check_and_award_badges") => lastCall.result = {}
    /\ (lastCall.op \in {"award_xp", "update_streak"} /\ "failed" \in DOMAIN lastCall
        /\ ~lastCall.failed) => "error" \notin DOMAIN lastCall.result

\* the badge check failed at the write of the unlock map for a user whose
\* first activity qualifies for first_steps, and returned the empty list
C21_Witness ==
    /\ FailedCall("check_and_award_badges")
    /\ lastCall.fault = "update"
    /\ lastCall.pre # NoDoc
    /\ lastCall.pre.totalActivitiesLogged = 1
    /\ lastCall.result = {}
    /\ badges[lastCall.user] # NoDoc
    /\ "first_steps" \notin DOMAIN badges[lastCall.user].badges

\* award_xp failed at its update and returned the error-tagged result
C21_WitnessAwardXp ==
    /\ FailedCall("award_xp")
    /\ lastCall.fault = "update"
    /\ lastCall.result = StoreError

(***************************************************************************)
(* Properties of the streak fields under every handler (checked under      *)
(* Spec).                                                                  *)
(***************************************************************************)
\* C22: in every state reached by serialized award_xp, update_streak,
\* increment_activity_count and add_to_total_earnings calls, whichever of
\* them created the stats document, longestStreak >= currentStreak >= 0, and
\* longestStreak never decreases from one state to the next.
C22_LongestStreakBounds ==
    /\ [](\A u \in Users :
            stats[u] # NoDoc =>
                /\ stats[u].currentStreak >= 0
                /\ stats[u].longestStreak >= stats[u].currentStreak)
    /\ [][\A u \in Users :
            stats[u] # NoDoc =>
                /\ stats'[u] # NoDoc
                /\ stats'[u].longestStreak >= stats[u].longestStreak]_vars

\* update_streak after a gap: the streak of 2 falls back to 1 and the
\* longest streak stays 2
C22_Witness ==
    /\ lastCall.op = "update_streak"
    /\ lastCall.pre # NoDoc
    /\ lastCall.pre.currentStreak = 2
    /\ lastCall.pre.longestStreak = 2
    /\ stats[lastCall.user].currentStreak = 1
    /\ stats[lastCall.user].longestStreak = 2

(***************************************************************************)
(* Properties of delete_activity (checked under SpecLogs).                 *)
(***************************************************************************)
\* the stored logs that reference the activity
LogsOf(lg, activity_id) ==
    {id \in LogIds : lg[id] # NoDoc /\ lg[id].activityId = activity_id}

\* C23: delete_activity by a parent of the activity's family deletes every
\* log of the activity, whatever its status, and the activity, and reports
\* the number of logs removed: no log referencing the activity remains, and
\* every other log and activity stays as it was.  For a parent of another
\* family (403) and for a missing activity (404) nothing is deleted.
C23_DeleteCascade ==
    [][lastCall'.op = "delete_activity" =>
          LET activity_id == lastCall'.arg.activity_id
              uid == lastCall'.caller
              result == lastCall'.result
          IN  IF activities[activity_id] = NoDoc
              THEN /\ result.status = 404
                   /\ logs' = logs
                   /\ activities' = activities
              ELSE IF users[uid].familyId # activities[activity_id].familyId
              THEN /\ result.status = 403
                   /\ logs' = logs
                   /\ activities' = activities
              ELSE /\ result.status = 200
                   /\ result.deleted = Cardinality(LogsOf(logs, activity_id))
                   /\ LogsOf(logs', activity_id) = {}
                   /\ activities'[activity_id] = NoDoc
                   /\ \A id \in LogIds \ LogsOf(logs, activity_id) : logs'[id] = logs[id]
                   /\ \A a \in ActivityIds \ {activity_id} : activities'[a] = activities[a]
     ]_vars

\* an activity deleted with its two logs, one approved and one still pending
C23_Witness ==
    /\ lastCall.op = "delete_activity"
    /\ lastCall.result.status = 200
    /\ lastCall.result.deleted = 2
    /\ ledger.rewarded["log1"] = 1
    /\ ledger.decided["log2"] = 0
    /\ \A id \in LogIds : logs[id] = NoDoc

\* a parent of the other family refused, the logs still stored
C23_WitnessRefused ==
    /\ lastCall.op = "delete_activity"
    /\ lastCall.result.status = 403
    /\ \E id \in LogIds : logs[id] # NoDoc /\ logs[id].activityId = lastCall.arg.activity_id

(***************************************************************************)
(* Properties of the family endpoints (checked under SpecFamilies).        *)
(***************************************************************************)
\* the families whose member list holds the user
FamiliesOf(uid) ==
    {f \in Families : families[f] # NoDoc /\ Contains(families[f].members, uid)}

\* the step is a create_family or join_family request of a caller whose
\* familyId was set before it
MemberAsksAgain ==
    /\ lastCall'.op \in {"create_family", "join_family"}
    /\ users[lastCall'.caller] # NoDoc
    /\ users[lastCall'.caller].familyId # None

\* C24 as stated: join_family and create_family for a user whose familyId is
\* set are rejected with HTTP 400 and write neither the user document nor a
\* family document.
C24_SecondFamilyRejected400 ==
    [][MemberAsksAgain =>
          /\ lastCall'.result.status = 400
          /\ users' = users
          /\ families' = families]_vars

\* C24 amended: a user belongs to at most one family, the one of the user's
\* familyId.  join_family for a user whose familyId is set is rejected with
\* HTTP 400, and so is create_family for a parent whose familyId is set; for
\* a user who is not a parent create_family answers 403, the role being
\* tested first.  The rejected request writes neither the user document nor
\* a family document.
C24_SecondFamilyRejected ==
    /\ [](\A uid \in Accounts :
            /\ Cardinality(FamiliesOf(uid)) <= 1
            /\ users[uid].familyId # None => FamiliesOf(uid) = {users[uid].familyId})
    /\ [][MemberAsksAgain =>
             /\ lastCall'.result.status =
                    IF lastCall'.op = "create_family"
                       /\ users[lastCall'.caller].role # "parent"
                    THEN 403 ELSE 400
             /\ users' = users
             /\ families' = families]_vars

\* a child of one family sends the invite code of the other family and is
\* refused with 400
C24_Witness ==
    /\ lastCall.op = "join_family"
    /\ lastCall.result.status = 400
    /\ users[lastCall.caller].familyId # None
    /\ \E f \in Families \ {users[lastCall.caller].familyId} :
           /\ families[f] # NoDoc
           /\ families[f].inviteCode = strip_upper(lastCall.arg.invite_code)
           /\ ~Contains(families[f].members, lastCall.caller)

\* a child who joined a family asks to create one and is refused with 403
C24_WitnessChildCreates ==
    /\ lastCall.op = "create_family"
    /\ lastCall.result.status = 403
    /\ users[lastCall.caller].familyId # None

(***************************************************************************)
(* The next-day step of the streak (checked under SpecStreak).             *)
(***************************************************************************)
Max(a, b) == IF a >= b THEN a ELSE b

StatFor(s, requirement_type) ==
    CASE requirement_type = "activity_count" -> s.totalActivitiesLogged
      [] requirement_type = "total_earnings" -> s.totalEarnings
      [] requirement_type = "current_streak" -> s.currentStreak

\* the requirement value in the unit of its stat
Required(badge_id) ==
    IF BADGES[badge_id].requirement_type = "total_earnings"
    THEN BADGES[badge_id].requirement_value * CentsPerDollar
    ELSE BADGES[badge_id].requirement_value

\* the badges of the three stat-backed types whose stat in s has reached the
\* requirement value
Qualifying(s) ==
    {badge_id \in DOMAIN BADGES :
        /\ BADGES[badge_id].requirement_type \in BackedTypes
        /\ StatFor(s, BADGES[badge_id].requirement_type) >= Required(badge_id)}

\* the badge ids of an unlock document, none when the document is absent
Unlocked(doc) == IF doc = NoDoc THEN {} ELSE DOMAIN doc.badges

\* C26: after check_and_award_badges for a user with a stats document, the
\* unlock map holds every badge of type activity_count, total_earnings or
\* current_streak whose stat had reached its requirementValue at the call;
\* the call returns all the badges that newly qualify, together; and no
\* badge is added whose stat is below its requirementValue.
C26_UnlockAtRequirement ==
    (lastCall.op = "check_and_award_badges" /\ lastCall.pre # NoDoc) =>
        /\ Qualifying(lastCall.pre) \subseteq Unlocked(badges[lastCall.user])
        /\ lastCall.result = Qualifying(lastCall.pre) \ Unlocked(lastCall.preBadges)
        /\ Unlocked(badges[lastCall.user]) \ Unlocked(lastCall.preBadges)
               \subseteq Qualifying(lastCall.pre)

\* one call returns first_steps and first_dollar together: one activity
\* logged and exactly 1.00 earned since the last check
C26_Witness ==
    /\ lastCall.op = "check_and_award_badges"
    /\ lastCall.pre # NoDoc
    /\ lastCall.pre.totalActivitiesLogged = 1
    /\ lastCall.pre.totalEarnings = CentsPerDollar
    /\ lastCall.result = {"first_steps", "first_dollar"}
    /\ Unlocked(lastCall.preBadges) = {}

(***************************************************************************)
(* The frame of a rejection (checked under SpecLogs).                      *)
(***************************************************************************)
\* C27: verify_log with status rejected changes the log document only, in
\* verificationStatus, verifiedBy and verifiedAt: every stats document and
\* unlock map, the owner's included, every other log and every activity
\* stay as they were, no XP is awarded and no badge check runs.
C27_RejectionFrame ==
    [][(/\ lastCall'.op = "verify_log"
        /\ lastCall'.arg.status = "rejected"
        /\ lastCall'.result.status = 200)
       => LET id == lastCall'.arg.log_id
          IN  /\ logs[id] # NoDoc
              /\ logs'[id] = [logs[id] EXCEPT !.verificationStatus = "rejected",
                                              !.verifiedBy = lastCall'.caller,
                                              !.verifiedAt = Date(now)]
              /\ \A other \in LogIds \ {id} : logs'[other] = logs[other]
              /\ stats' = stats
              /\ badges' = badges
              /\ activities' = activities
              /\ users' = users
              /\ awarded' = awarded
              /\ lastCall'.steps = <<>>
              /\ lastCall'.awards = <<>>
              /\ lastCall'.new_badges = {}
     ]_vars

\* a parent rejected, a day after it was logged, the log of a child who has
\* a stats document and an unlock map
C27_Witness ==
    /\ lastCall.op = "verify_log"
    /\ lastCall.arg.status = "rejected"
    /\ lastCall.result.status = 200
    /\ logs[lastCall.arg.log_id] # NoDoc
    /\ logs[lastCall.arg.log_id].verificationStatus = "rejected"
    /\ logs[lastCall.arg.log_id].verifiedBy = lastCall.caller
    /\ lastCall.at > logs[lastCall.arg.log_id].timestamp
    /\ stats[lastCall.user] = lastCall.pre
    /\ lastCall.pre # NoDoc
    /\ badges[lastCall.user] # NoDoc

(***************************************************************************)
(* XP conservation (checked under SpecXP).                                 *)
(***************************************************************************)
RECURSIVE SpentOnLevels(_)
\* the thresholds paid to reach level: xpToNextLevel(1) + ... +
\* xpToNextLevel(level - 1)
SpentOnLevels(level) ==
    IF level <= 1 THEN 0
    ELSE calculate_xp_to_next_level(level - 1) + SpentOnLevels(level - 1)

\* C28: in every state reached by serialized calls without store failures
\* from an absent stats document, totalExperience is experiencePoints plus
\* the thresholds of the levels 1 .. level-1: every XP point awarded is in
\* the current balance or was spent on a level.
C28_XPConservation ==
    \A u \in Users :
        stats[u] # NoDoc =>
            stats[u].totalExperience =
                stats[u].experiencePoints + SpentOnLevels(stats[u].level)

\* level 3 reached with XP left over: 100 and 282 spent, the rest in the
\* balance
C28_Witness ==
    /\ lastCall.op = "award_xp"
    /\ stats[lastCall.user].level = 3
    /\ stats[lastCall.user].experiencePoints > 0
    /\ stats[lastCall.user].totalExperience =
           stats[lastCall.user].experiencePoints + 382

(***************************************************************************)
(* The activity counter under store failures (checked under SpecFaults).   *)
(***************************************************************************)
\* C29: whatever gamification steps of the create_log requests fail with a
\* store error, a user's totalActivitiesLogged never exceeds the number of
\* logs the user has created.
C29_NoLogCountedTwice ==
    \A u \in Users :
        stats[u] # NoDoc => stats[u].totalActivitiesLogged <= ledger.created[u]

\* the first log of a user: award_xp failed at its read, update_streak
\* created the stats document with totalActivitiesLogged 1 and
\* increment_activity_count made it 2
C29_Witness ==
    /\ lastCall.op = "create_log"
    /\ lastCall.result.status = 201
    /\ lastCall.pre = NoDoc
    /\ lastCall.steps[1] = Step("award_xp", TRUE)
    /\ lastCall.steps[2] = Step("update_streak", FALSE)
    /\ lastCall.steps[3] = Step("increment_activity_count", FALSE)
    /\ ledger.created[lastCall.user] = 1
    /\ stats[lastCall.user].totalActivitiesLogged = 2

(***************************************************************************)
(* Logs and their activities (checked under SpecCascade).                  *)
(***************************************************************************)
\* C30: in every reachable state, the states reached by a delete_activity
\* between the two parts of a create_log on the same activity included,
\* every stored log references an activity that exists.
C30_NoOrphanLog ==
    \A id \in LogIds :
        logs[id] # NoDoc => activities[logs[id].activityId] # NoDoc

\* create_log read the activity, delete_activity removed it with its logs,
\* and create_log then wrote its log: the log outlives the activity
C30_Witness ==
    /\ lastCall.op = "create_log"
    /\ lastCall.result.status = 201
    /\ logs[lastCall.result.log.id] = lastCall.result.log
    /\ activities[lastCall.arg.activity_id] = NoDoc

====
